---- MODULE Spec2Model ----
(***************************************************************************)
(* FruitNinja: the game loop (game/engine.py), the score manager           *)
(* (game/score.py) and the fruit manager (game/fruit.py, game/physics.py). *)
(*                                                                         *)
(* Units.  Time is counted in tenths of a second (the loop's dt clamp,     *)
(* 0.1 s, is 1), lengths in tenths of a pixel and velocities in pixels per *)
(* second, so that one physics step of 0.1 s is exact integer arithmetic:  *)
(*   velocity_y += 72 ; x += velocity_x ; y += velocity_y.                 *)
(*                                                                         *)
(* Rendering, audio, logging and the camera driver are collaborators; of   *)
(* render() only the writes to the layout's selected_duration and          *)
(* show_rules are modelled.  The gesture tracker's trajectory is an input  *)
(* of every Playing tick (its length, its end-to-end displacement and the  *)
(* set of live targets it crosses).                                        *)
(*                                                                         *)
(* The gesture tracker (gesture/tracker.py), the collision detector        *)
(* (game/collision.py), the launch of a fruit and the physics step have    *)
(* specifications of their own (SpecTracker, SpecDetect, SpecSegment,      *)
(* SpecLaunch, SpecPhysics); SpecTracker counts its wall clock in          *)
(* milliseconds.                                                           *)
(***************************************************************************)
EXTENDS Integers, Sequences, FiniteSets, TLC

(* ---------------- bounds of the exploration ---------------------------- *)
\* wall-clock horizon of Spec, counted from StartClock
MaxClock == 600
\* pygame events delivered to one handle_events call
MaxEvents == 1
\* live targets at the end of a tick (a tick that would leave more is not
\* explored)
MaxFruits == 2
\* ScoreManager calls explored by SpecScore
MaxCalls == 8
\* wall-clock slack of SpecTime beyond countdown + longest game
TimeSlack == 3
\* wall-clock time within which _async_init is explored as still running
MaxInitLag == 60
\* Playing ticks of 0.1 s explored by SpecPlay
MaxPlayTicks == 70
MaxPoints == 3
GridMax == 3
MaxTrackerCalls == 4

(* ---------------- program constants ------------------------------------ *)
\* time.time() when the engine is constructed (any large positive value)
StartClock == 100
\* run(): dt = min(current_time - last_time, 0.1)
MAX_DT == 1
\* update_countdown(): elapsed >= 3
COUNTDOWN_TIME == 30
\* GameConfig
DEFAULT_GAME_DURATION == 600
MAX_MISSED_FRUITS == 5
INITIAL_LIVES == 3
BASE_SCORE_PER_FRUIT == 10
COMBO_MULTIPLIER_NUM == 3
COMBO_MULTIPLIER_DEN == 2
WINDOW_WIDTH == 8000
WINDOW_HEIGHT == 6000
FRUIT_RADIUS == 400
FRUIT_SPAWN_RATE == 15
GRAVITY == 72
FRUIT_ANGULAR_VELOCITY == 180
FRUIT_TYPES == {"apple", "banana", "peach", "watermelon", "strawberry"}
\* UILayout.draw_duration_selector: duration_options = [30, 60, 90]
duration_options == {300, 600, 900}
\* GestureMapper.swipe_threshold
swipe_threshold == 30
\* FruitManager.update: guide phase lasts 5 s, a sliced fruit lingers 1.0 s
GUIDE_TIME == 50
FRUIT_VELOCITY == 500
EXTRA_VELOCITY == 400
min_max_height == 400
max_max_height == 480
HEIGHT_FLOOR == 100
UNIT == 1000
MaxRoot == 1400
max_trajectory_length == 50
base_min_distance == 30
max_min_distance == 70
SLICED_LINGER == 10
guide_fruits == <<"apple", "apple", "strawberry", "strawberry", "banana",
                  "banana", "watermelon", "watermelon", "bomb">>

Min(a, b) == IF a < b THEN a ELSE b

VARIABLES
  game_state,           \* engine.game_state
  running,              \* engine.running
  pc,                   \* position of the main thread in run()
  current_time,         \* run(): current_time = time.time()
  last_time,            \* engine.last_time
  dt,                   \* run(): clamped time step of this iteration
  events,               \* pygame.event.get() still to be handled
  countdown_start_time, \* engine.countdown_start_time
  end_reason,           \* engine.end_reason ("unset" before end_game)
  initializing,         \* engine.initializing
  init_complete,        \* engine.init_complete
  init_progress,        \* engine.init_progress
  init_pc,              \* position of the thread running _async_init
  camera,               \* engine.camera ("None" until Camera() returned)
  selected_duration,    \* renderer.layout.selected_duration
  show_rules,           \* renderer.layout.show_rules
  score_manager,        \* ScoreManager fields
  GAME_DURATION,        \* duration read by update_game_time (0: not set yet)
  fruit_manager,        \* FruitManager fields
  calls,                \* SpecScore: number of ScoreManager calls made
  last_call,            \* SpecScore: the method called last
  streak,               \* SpecScore: update_score calls since the last reset
                        \* (-1 once a miss has intervened)
  trajectory,               \* gesture_tracker.trajectory (index fingertip)
  middle_finger_trajectory, \* gesture_tracker.middle_finger_trajectory
  collision,                \* SpecDetect: the fruit and the result of the call,
                            \* when the last call was detect_collision
  collided_fruits,          \* SpecDetect: the result of the call, when the last
                            \* call was detect_multiple_collisions
  launch,                   \* SpecLaunch: the arguments, the random draws and
                            \* the velocity of the last Fruit constructed
  segment,                  \* SpecSegment: the arguments and the result of a
                            \* line_circle_collision call
  tracker                   \* SpecTracker: the timestamps of the points of the
                            \* two channels, and the wall clock

vars == <<game_state, running, pc, current_time, last_time, dt, events,
          countdown_start_time, end_reason, initializing, init_complete,
          init_progress, init_pc, camera, selected_duration, show_rules,
          score_manager, GAME_DURATION, fruit_manager, calls, last_call,
          streak, trajectory, middle_finger_trajectory, collision,
          collided_fruits, launch,
                segment, tracker>>

\* the points of the tracker's channels and the detector's last results are
\* explored by SpecDetect; the loop's model takes the trajectory of a tick as
\* an input (Gestures) and leaves them alone
detect_vars == <<trajectory, middle_finger_trajectory, collision,
                 collided_fruits>>

ghost_vars == <<calls, last_call, streak, trajectory,
                middle_finger_trajectory, collision, collided_fruits, launch,
                segment, tracker>>

engine_vars == <<game_state, running, pc, current_time, last_time, dt, events,
                 countdown_start_time, end_reason>>
init_vars == <<initializing, init_complete, init_progress, init_pc, camera>>
layout_vars == <<selected_duration, show_rules>>

(* ======================= ScoreManager (score.py) ======================= *)

\* ScoreManager.__init__ / reset
ScoreManagerNew ==
  [score |-> 0, combo |-> 0, max_combo |-> 0, missed_fruits |-> 0,
   game_time |-> 0, game_over |-> FALSE]

reset(sm) == ScoreManagerNew

\* variant of final_score: every slice is worth the base score
final_score_flat(combo) == BASE_SCORE_PER_FRUIT

\* final_score = int(fruit_score * (1 + (combo - 1) * 1.5))
final_score(combo) ==
  (BASE_SCORE_PER_FRUIT
     * (COMBO_MULTIPLIER_DEN + (combo - 1) * COMBO_MULTIPLIER_NUM))
  \div COMBO_MULTIPLIER_DEN

update_score(sm, fruit) ==
  LET c == sm.combo + 1 IN
  [sm EXCEPT !.combo = c,
             !.score = sm.score + final_score(c),
             !.max_combo = IF c > sm.max_combo THEN c ELSE sm.max_combo]

\* variant of reset_combo: the best combo is forgotten as well
reset_combo_and_max(sm) == [sm EXCEPT !.combo = 0, !.max_combo = 0]

reset_combo(sm) == [sm EXCEPT !.combo = 0]

\* variant of increment_missed_fruits: a miss costs two
increment_missed_fruits_twice(sm) ==
  LET m == sm.missed_fruits + 2 IN
  [reset_combo(sm) EXCEPT
     !.missed_fruits = m,
     !.game_over = IF m >= MAX_MISSED_FRUITS THEN TRUE ELSE sm.game_over]

increment_missed_fruits(sm) ==
  LET m == sm.missed_fruits + 1 IN
  [reset_combo(sm) EXCEPT
     !.missed_fruits = m,
     !.game_over = IF m >= MAX_MISSED_FRUITS THEN TRUE ELSE sm.game_over]

\* variant of update_game_time: the time is compared with the default duration
update_game_time_default(sm, step, duration) ==
  LET t == sm.game_time + step IN
  [sm EXCEPT !.game_time = t,
             !.game_over = IF t >= DEFAULT_GAME_DURATION THEN TRUE
                           ELSE sm.game_over]

\* variant of update_game_time: the game ends only once the duration is passed
update_game_time_strict(sm, step, duration) ==
  LET t == sm.game_time + step IN
  [sm EXCEPT !.game_time = t,
             !.game_over = IF t > duration THEN TRUE ELSE sm.game_over]

update_game_time(sm, step, duration) ==
  LET t == sm.game_time + step IN
  [sm EXCEPT !.game_time = t,
             !.game_over = IF t >= duration THEN TRUE ELSE sm.game_over]

\* the setter start_game() calls (engine.py:634).  score.py defines no such
\* method and config.py no GAME_DURATION; the setter is taken to install the
\* duration that update_game_time reads as GameConfig.GAME_DURATION
set_game_duration(duration) == duration

(* ================ Fruit / PhysicsEngine / FruitManager ================= *)

\* Fruit._calculate_horizontal_param_range, in hundredths
_calculate_horizontal_param_range(x) ==
  IF x < WINDOW_WIDTH \div 2 - 1000 THEN <<30, 70>>
  ELSE IF x > WINDOW_WIDTH \div 2 + 1000 THEN <<-70, -30>>
  ELSE <<-50, 50>>

Max(a, b) == IF a > b THEN a ELSE b

RECURSIVE RootBetween(_, _, _)
\* the largest k in low..high with k * k <= n, by bisection
RootBetween(n, low, high) ==
  IF low >= high THEN low
  ELSE LET mid == (low + high + 1) \div 2
       IN IF mid * mid <= n THEN RootBetween(n, mid, high)
          ELSE RootBetween(n, low, mid - 1)

\* math.sqrt, rounded down
ISqrt(n) == RootBetween(n, 0, MaxRoot)

\* v * num / den, rounded towards zero
Scaled(v, num, den) ==
  IF v < 0 THEN 0 - (((0 - v) * num) \div den) ELSE (v * num) \div den

\* the required heights (px) and the vertical speeds (px/s) that reach them;
\* start_y in tenths of a pixel, g = GRAVITY * 10 px/s^2
min_required_height(start_y) ==
  Max(min_max_height - start_y \div 10, HEIGHT_FLOOR)
max_required_height(start_y) ==
  Max(max_max_height - start_y \div 10, HEIGHT_FLOOR)
min_vertical_velocity(start_y) ==
  ISqrt(2 * (GRAVITY * 10) * min_required_height(start_y))
max_vertical_velocity(start_y) ==
  ISqrt(2 * (GRAVITY * 10) * max_required_height(start_y))

\* _calculate_trajectory, the branch of step 10 taken for the drawn vector;
\* components of unit vectors are in thousandths
clamp_branch(start_y, horizontal_param, random_offset_y) ==
  LET velocity_y == random_offset_y
                      - ISqrt(UNIT * UNIT - horizontal_param * horizontal_param)
      current_speed == FRUIT_VELOCITY + EXTRA_VELOCITY
  IN IF (0 - velocity_y) * current_speed > max_vertical_velocity(start_y) * UNIT
     THEN "max"
     ELSE IF (0 - velocity_y) * current_speed
               < min_vertical_velocity(start_y) * UNIT
          THEN "min" ELSE "none"

\* _calculate_trajectory, the vector rebuilt from the vertical speed wanted
clamped(vertical_velocity, horizontal_param_range) ==
  LET current_speed == FRUIT_VELOCITY + EXTRA_VELOCITY
      vy == (vertical_velocity * UNIT) \div current_speed
      vx == ISqrt(UNIT * UNIT - vy * vy)
      min_horizontal == horizontal_param_range[1] * 10
      max_horizontal == horizontal_param_range[2] * 10
      signed == IF min_horizontal < 0 /\ max_horizontal < 0 THEN 0 - vx ELSE vx
      velocity_x == Max(min_horizontal, Min(max_horizontal, signed))
  IN <<velocity_x, 0 - ISqrt(UNIT * UNIT - velocity_x * velocity_x)>>

\* a trajectory that clamps the rebuilt horizontal speed to the range first
\* and gives it the sign of the range afterwards
_calculate_trajectory_unsigned(start_x, start_y, horizontal_param_range, horizontal_param, random_offset_x, random_offset_y) ==
  LET branch == clamp_branch(start_y, horizontal_param, random_offset_y)
      vy == ((IF branch = "max" THEN max_vertical_velocity(start_y)
              ELSE min_vertical_velocity(start_y)) * UNIT)
              \div (FRUIT_VELOCITY + EXTRA_VELOCITY)
      vx == Max(horizontal_param_range[1] * 10,
                Min(horizontal_param_range[2] * 10, ISqrt(UNIT * UNIT - vy * vy)))
      v == IF branch = "none"
           THEN <<horizontal_param + random_offset_x,
                  random_offset_y
                    - ISqrt(UNIT * UNIT - horizontal_param * horizontal_param)>>
           ELSE <<IF horizontal_param_range[2] < 0 THEN 0 - vx ELSE vx,
                  0 - ISqrt(UNIT * UNIT - vx * vx)>>
      new_length == ISqrt(v[1] * v[1] + v[2] * v[2])
  IN IF new_length > 0
     THEN <<Scaled(v[1], UNIT, new_length), Scaled(v[2], UNIT, new_length)>>
     ELSE v

\* Fruit._calculate_trajectory(start_x, start_y, center_x, center_y,
\* horizontal_param_range) with its three random draws as arguments; the
\* symmetry axis and the vector to the centre are computed and not used
_calculate_trajectory(start_x, start_y, horizontal_param_range, horizontal_param, random_offset_x, random_offset_y) ==
  LET branch == clamp_branch(start_y, horizontal_param, random_offset_y)
      v == IF branch = "max"
           THEN clamped(max_vertical_velocity(start_y), horizontal_param_range)
           ELSE IF branch = "min"
           THEN clamped(min_vertical_velocity(start_y), horizontal_param_range)
           ELSE <<horizontal_param + random_offset_x,
                  random_offset_y
                    - ISqrt(UNIT * UNIT - horizontal_param * horizontal_param)>>
      new_length == ISqrt(v[1] * v[1] + v[2] * v[2])
  IN IF new_length > 0
     THEN <<Scaled(v[1], UNIT, new_length), Scaled(v[2], UNIT, new_length)>>
     ELSE v

\* the value of launch before a Fruit has been constructed
NoLaunch ==
  [x |-> 0, y |-> 0, horizontal_param |-> 0, random_offset_x |-> 0,
   random_offset_y |-> 0, horizontal_param_range |-> <<0, 0>>,
   branch |-> "unset", velocity_x |-> 0, velocity_y |-> 0]

\* Fruit.__init__: launch velocity (px/s) = _calculate_trajectory(...) * 900.
\* Spawning at y = WINDOW_HEIGHT makes both required heights 100 px, so the
\* vertical speed is always clamped to sqrt(2*720*100)/900 and the horizontal
\* component (0.9068 before the range clamp) ends on the bound of the range:
\* (0.7, -0.714) left, (-0.7, -0.714) right, (0.5, -0.866) near the centre.
launch_velocity(x) ==
  LET r == _calculate_horizontal_param_range(x) IN
  IF r[1] > 0 THEN <<630, -643>>
  ELSE IF r[2] < 0 THEN <<-630, -643>>
  ELSE <<450, -779>>

Fruit(x, y, fruit_type) ==
  [type |-> fruit_type, x |-> x, y |-> y,
   velocity_x |-> launch_velocity(x)[1], velocity_y |-> launch_velocity(x)[2],
   angular_velocity |-> FRUIT_ANGULAR_VELOCITY, rotation |-> 0,
   sliced |-> FALSE, sliced_time |-> 0]

\* Fruit.slice
slice(fruit, slice_time) ==
  [fruit EXCEPT !.sliced = TRUE, !.sliced_time = slice_time]

\* a physics step that moves sliced fruits too
apply_physics_sliced(fruit, step) ==
  LET vy == fruit.velocity_y + GRAVITY * step IN
  [fruit EXCEPT !.velocity_y = vy,
                !.x = fruit.x + fruit.velocity_x * step,
                !.y = fruit.y + vy * step,
                !.rotation = fruit.rotation + fruit.angular_velocity * step]

\* PhysicsEngine.apply_physics (step in tenths of a second: 0 or 1 in the
\* engine, whose dt is at most MAX_DT; rotation in tenths of a degree)
apply_physics(fruit, step) ==
  IF ~fruit.sliced
  THEN LET vy == fruit.velocity_y + GRAVITY * step IN
       [fruit EXCEPT !.velocity_y = vy,
                     !.x = fruit.x + fruit.velocity_x * step,
                     !.y = fruit.y + vy * step,
                     !.rotation = fruit.rotation + fruit.angular_velocity * step]
  ELSE fruit

\* Fruit.update with the physics engine supplied
fruit_update(fruit, step) ==
  IF ~fruit.sliced THEN apply_physics(fruit, step) ELSE fruit

\* Fruit.is_off_screen
is_off_screen(fruit) ==
  \/ fruit.x < -FRUIT_RADIUS
  \/ fruit.x > WINDOW_WIDTH + FRUIT_RADIUS
  \/ fruit.y > WINDOW_HEIGHT + FRUIT_RADIUS

\* FruitManager.__init__
FruitManagerNew ==
  [fruits |-> <<>>, last_spawn_time |-> 0, guide_phase |-> TRUE,
   guide_start_time |-> 0, guide_index |-> 0]

\* FruitManager.clear_fruits
clear_fruits(fm) == [fm EXCEPT !.fruits = <<>>]

\* spawn positions: random.randint(40, 760) outside the central band
\* [320, 480]; the leftmost position stands for all of them
SpawnXs == {400}

\* FruitManager.update: is a spawn due at time now
spawn_due(fm, now) == now - fm.last_spawn_time > FRUIT_SPAWN_RATE

RECURSIVE MoveAndExpire_early(_, _, _)
\* drops a sliced fruit as soon as 1.0 s has passed
MoveAndExpire_early(fruits, step, now) ==
  IF fruits = <<>> THEN <<>>
  ELSE LET f == fruit_update(Head(fruits), step)
           rest == MoveAndExpire_early(Tail(fruits), step, now)
       IN IF f.sliced /\ now - f.sliced_time >= SLICED_LINGER
          THEN rest ELSE <<f>> \o rest

RECURSIVE MoveAndExpire_kept(_, _, _)
\* an update loop that never removes a sliced fruit
MoveAndExpire_kept(fruits, step, now) ==
  IF fruits = <<>> THEN <<>>
  ELSE <<fruit_update(Head(fruits), step)>>
         \o MoveAndExpire_kept(Tail(fruits), step, now)

RECURSIVE MoveAndExpire(_, _, _)
\* FruitManager.update, the loop over self.fruits[:]
MoveAndExpire(fruits, step, now) ==
  IF fruits = <<>> THEN <<>>
  ELSE LET f == fruit_update(Head(fruits), step)
           rest == MoveAndExpire(Tail(fruits), step, now)
       IN IF f.sliced /\ now - f.sliced_time > SLICED_LINGER
          THEN rest ELSE <<f>> \o rest

\* an update whose guide spawns take the drawn kind instead of the listed one
fruit_manager_update_unlisted(fm, step, now, x, kind) ==
  LET gst == IF fm.guide_phase /\ fm.guide_start_time = 0
             THEN now ELSE fm.guide_start_time
      gph == IF fm.guide_phase /\ now - gst >= GUIDE_TIME
             THEN FALSE ELSE fm.guide_phase
      due == spawn_due(fm, now)
      guided == gph /\ fm.guide_index < Len(guide_fruits)
      spawned ==
        IF ~due THEN fm.fruits
        ELSE Append(fm.fruits, Fruit(x, WINDOW_HEIGHT, kind))
  IN [fruits |-> MoveAndExpire(spawned, step, now),
      last_spawn_time |-> IF due THEN now ELSE fm.last_spawn_time,
      guide_phase |-> gph,
      guide_start_time |-> gst,
      guide_index |-> IF due /\ guided THEN fm.guide_index + 1
                      ELSE fm.guide_index]

\* FruitManager.update(dt, current_time, physics_engine); x and kind are the
\* random draws of spawn_fruit / spawn_guide_fruit
fruit_manager_update(fm, step, now, x, kind) ==
  LET gst == IF fm.guide_phase /\ fm.guide_start_time = 0
             THEN now ELSE fm.guide_start_time
      gph == IF fm.guide_phase /\ now - gst >= GUIDE_TIME
             THEN FALSE ELSE fm.guide_phase
      due == spawn_due(fm, now)
      guided == gph /\ fm.guide_index < Len(guide_fruits)
      spawned ==
        IF ~due THEN fm.fruits
        ELSE IF guided
             THEN Append(fm.fruits,
                         Fruit(x, WINDOW_HEIGHT, guide_fruits[fm.guide_index + 1]))
             ELSE Append(fm.fruits, Fruit(x, WINDOW_HEIGHT, kind))
  IN [fruits |-> MoveAndExpire(spawned, step, now),
      last_spawn_time |-> IF due THEN now ELSE fm.last_spawn_time,
      guide_phase |-> gph,
      guide_start_time |-> gst,
      guide_index |-> IF due /\ guided THEN fm.guide_index + 1
                      ELSE fm.guide_index]

RECURSIVE RemoveOffScreen(_)
\* GameEngine.update: unsliced fruits that left the screen are removed
RemoveOffScreen(fruits) ==
  IF fruits = <<>> THEN <<>>
  ELSE IF is_off_screen(Head(fruits)) /\ ~Head(fruits).sliced
       THEN RemoveOffScreen(Tail(fruits))
       ELSE <<Head(fruits)>> \o RemoveOffScreen(Tail(fruits))

(* ============ GestureMapper / CollisionDetector (abstract) ============= *)

\* trajectories offered to a tick: number of points of the index channel and
\* the distance between its first and last point
Gestures ==
  { [len |-> 0, dist |-> 0], [len |-> 2, dist |-> 31],
    [len |-> 3, dist |-> 30], [len |-> 3, dist |-> 31] }

\* a classifier that takes two points, and a displacement of the threshold
is_swipe_loose(g) == g.len >= 2 /\ g.dist >= swipe_threshold

\* the index trajectory the tracker holds in a tick whose gesture is g, in
\* tenths of a pixel: g.len points, the last one g.dist px from the first
gesture_points(g) ==
  [i \in 1..g.len |-> <<IF i = g.len THEN 1000 + 10 * g.dist ELSE 1000, 1000>>]

\* GestureMapper.is_swipe
is_swipe(g) == g.len >= 3 /\ g.dist > swipe_threshold

Abs(v) == IF v < 0 THEN 0 - v ELSE v

RECURSIVE GCD(_, _)
GCD(a, b) == IF b = 0 THEN a ELSE GCD(b, a % b)

\* the test against the whole line through the two points, without the clamp
line_circle_collision_unclamped(line_start, line_end, circle_center, radius) ==
  LET u == GCD(GCD(GCD(Abs(line_end[1] - line_start[1]),
                       Abs(line_end[2] - line_start[2])),
                   GCD(Abs(circle_center[1] - line_start[1]),
                       Abs(circle_center[2] - line_start[2]))), radius)
      dx == (line_end[1] - line_start[1]) \div u
      dy == (line_end[2] - line_start[2]) \div u
      line_length_sq == dx * dx + dy * dy
      sx == (circle_center[1] - line_start[1]) \div u
      sy == (circle_center[2] - line_start[2]) \div u
      r == radius \div u
      p == sx * dx + sy * dy
  IN IF line_length_sq = 0 THEN sx * sx + sy * sy <= r * r
     ELSE (sx * sx + sy * sy) * line_length_sq - p * p
            <= r * r * line_length_sq

\* a test that misses the segments and points that only touch the circle
line_circle_collision_strict(line_start, line_end, circle_center, radius) ==
  LET u == GCD(GCD(GCD(Abs(line_end[1] - line_start[1]),
                       Abs(line_end[2] - line_start[2])),
                   GCD(Abs(circle_center[1] - line_start[1]),
                       Abs(circle_center[2] - line_start[2]))), radius)
      dx == (line_end[1] - line_start[1]) \div u
      dy == (line_end[2] - line_start[2]) \div u
      line_length_sq == dx * dx + dy * dy
      sx == (circle_center[1] - line_start[1]) \div u
      sy == (circle_center[2] - line_start[2]) \div u
      ex == sx - dx
      ey == sy - dy
      r == radius \div u
      p == sx * dx + sy * dy
  IN IF line_length_sq = 0 THEN sx * sx + sy * sy < r * r
     ELSE IF p <= 0 THEN sx * sx + sy * sy < r * r
     ELSE IF p >= line_length_sq THEN ex * ex + ey * ey < r * r
     ELSE (sx * sx + sy * sy) * line_length_sq - p * p
            < r * r * line_length_sq

\* CollisionDetector.line_circle_collision, points as <<x, y>>.  With
\* p = (c - start) . d and len2 = d . d the clamped parameter is t = p / len2;
\* for 0 < t < 1 the squared distance of the closest point is
\* |c - start|^2 - p^2 / len2, compared with radius^2 after multiplying by
\* len2.  The test does not change when every length is divided by the same
\* number: the lengths are divided by their common divisor u, which keeps the
\* products exact and within TLC's integers
line_circle_collision(line_start, line_end, circle_center, radius) ==
  LET u == GCD(GCD(GCD(Abs(line_end[1] - line_start[1]),
                       Abs(line_end[2] - line_start[2])),
                   GCD(Abs(circle_center[1] - line_start[1]),
                       Abs(circle_center[2] - line_start[2]))), radius)
      dx == (line_end[1] - line_start[1]) \div u
      dy == (line_end[2] - line_start[2]) \div u
      line_length_sq == dx * dx + dy * dy
      sx == (circle_center[1] - line_start[1]) \div u
      sy == (circle_center[2] - line_start[2]) \div u
      ex == sx - dx
      ey == sy - dy
      r == radius \div u
      p == sx * dx + sy * dy
  IN IF line_length_sq = 0 THEN sx * sx + sy * sy <= r * r
     ELSE IF p <= 0 THEN sx * sx + sy * sy <= r * r
     ELSE IF p >= line_length_sq THEN ex * ex + ey * ey <= r * r
     ELSE (sx * sx + sy * sy) * line_length_sq - p * p
            <= r * r * line_length_sq

\* PhysicsEngine.is_point_in_circle: sqrt(d2) <= radius, for radius >= 0
is_point_in_circle(point, circle_center, radius) ==
  (point[1] - circle_center[1]) * (point[1] - circle_center[1])
    + (point[2] - circle_center[2]) * (point[2] - circle_center[2])
    <= radius * radius

\* the value of segment before line_circle_collision has been called
NoSegment ==
  [line_start |-> <<0, 0>>, line_end |-> <<0, 0>>, circle_center |-> <<0, 0>>,
   radius |-> 0, called |-> FALSE, result |-> FALSE, point_in_circle |-> FALSE]

\* detect_collision, the loop over the segments of the trajectory
segment_collision(points, fruit) ==
  \E i \in 1..(Len(points) - 1) :
    line_circle_collision(points[i], points[i + 1], <<fruit.x, fruit.y>>,
                          FRUIT_RADIUS)

\* CollisionDetector.detect_collision; g.len = the number of points of the
\* trajectory, crossing = the result of the loop over its segments
detect_collision(g, fruit, crossing) ==
  IF fruit.sliced THEN FALSE
  ELSE IF g.len < 2 THEN FALSE
  ELSE crossing

\* a dual test that is satisfied by either finger
detect_double_gesture_collision_either(g, m, fruit, crossing, mcrossing) ==
  detect_collision(g, fruit, crossing) \/ detect_collision(m, fruit, mcrossing)

\* CollisionDetector.detect_double_gesture_collision; g, crossing for the
\* index finger's trajectory and m, mcrossing for the middle finger's
detect_double_gesture_collision(g, m, fruit, crossing, mcrossing) ==
  IF fruit.sliced THEN FALSE
  ELSE IF g.len < 2 \/ m.len < 2 THEN FALSE
  ELSE detect_collision(g, fruit, crossing)
         /\ detect_collision(m, fruit, mcrossing)

\* CollisionDetector.detect_multiple_collisions, the test made per fruit
collides(g, m, fruit, crossing, mcrossing) ==
  IF fruit.type = "watermelon"
  THEN detect_double_gesture_collision(g, m, fruit, crossing, mcrossing)
  ELSE detect_collision(g, fruit, crossing)

\* the number of points of a trajectory, as the detector reads it
Shape(points) == [len |-> Len(points)]

RECURSIVE detect_multiple_collisions(_, _, _)
\* CollisionDetector.detect_multiple_collisions on trajectories of points
detect_multiple_collisions(gesture_trajectory, middle_trajectory, fruits) ==
  IF fruits = <<>> THEN <<>>
  ELSE LET fruit == Head(fruits)
           rest == detect_multiple_collisions(gesture_trajectory,
                                              middle_trajectory, Tail(fruits))
       IN IF collides(Shape(gesture_trajectory), Shape(middle_trajectory),
                      fruit, segment_collision(gesture_trajectory, fruit),
                      segment_collision(middle_trajectory, fruit))
          THEN <<fruit>> \o rest ELSE rest

\* the middle finger's trajectory of a tick of the loop's model: when mid, it
\* has two points or more and crosses the fruits the index finger's crosses
MiddleShape(mid) == [len |-> IF mid THEN 2 ELSE 0]

\* the value of collision before detect_collision has been called
NoCollision == [fruit |-> 0, result |-> FALSE]

\* GestureTracker.update_landmarks, the sampling of one channel: the points it
\* appends for the fingertip at point when the threshold computed from the
\* finger's speed is min_distance.  Points are <<x, y>> in tenths of a pixel;
\* an interpolated coordinate is rounded down to a tenth of a pixel.
\* int(distance / (min_distance * 2)) is the k with
\* (2 k min_distance)^2 <= squared_distance < (2 (k + 1) min_distance)^2, at
\* most the window's diagonal over twice the smallest threshold
MaxQuotient == 167

sampled_points(channel, point, min_distance) ==
  IF channel = <<>> THEN <<point>>
  ELSE LET last_point == channel[Len(channel)]
           dx == point[1] - last_point[1]
           dy == point[2] - last_point[2]
           squared_distance == dx * dx + dy * dy
           quotient ==
             CHOOSE k \in 0..MaxQuotient :
               /\ (2 * k * min_distance) * (2 * k * min_distance)
                    <= squared_distance
               /\ squared_distance < (2 * (k + 1) * min_distance)
                                       * (2 * (k + 1) * min_distance)
           steps == IF quotient > 2 THEN quotient ELSE 2
       IN IF squared_distance > min_distance * min_distance
          THEN (IF squared_distance > (min_distance * 3) * (min_distance * 3)
                THEN [i \in 1..(steps - 1) |->
                        <<last_point[1] + (dx * i) \div steps,
                          last_point[2] + (dy * i) \div steps>>]
                ELSE <<>>) \o <<point>>
          ELSE <<>>

\* the length limit applied after a channel was sampled: one pop per update
limit_length(channel) ==
  IF Len(channel) > max_trajectory_length THEN Tail(channel) ELSE channel

\* the timestamps of the points sampled_points adds, n of them: those of the
\* interpolated points lie between the last timestamp of the channel and the
\* timestamp of the new point, which comes last
sampled_timestamps(stamps, n, timestamp) ==
  IF n = 0 THEN <<>>
  ELSE IF stamps = <<>> THEN <<timestamp>>
  ELSE LET last == stamps[Len(stamps)]
       IN [i \in 1..(n - 1) |-> last + ((timestamp - last) * i) \div n]
            \o <<timestamp>>

\* min_distance = base_min_distance + min(speed / 200, 2) * 2 in tenths of a
\* pixel, speed = distance / time_diff in pixels per second, for a distance
\* in tenths of a pixel and a time_diff in milliseconds; speed = 0 on an
\* empty channel and when time_diff is not positive
speed_min_distance(distance, time_diff) ==
  IF time_diff > 0
  THEN base_min_distance
         + Min((10 * distance) \div time_diff,
               max_min_distance - base_min_distance)
  ELSE base_min_distance

\* the largest age in milliseconds at which a point is still kept by
\* update_trajectory_alpha: (1 - age / 1.5) ** 1.2 > 0.01 up to 1.4676 s
visible_age == 1467
max_points == 30

\* the indices of the points update_trajectory_alpha keeps for their age
fresh_indices(stamps, now) ==
  SelectSeq([i \in 1..Len(stamps) |-> i],
            LAMBDA i : now - stamps[i] <= visible_age)

\* channel[::step] with step = len(channel) // max_points, for a channel of
\* more than max_points points
uniform_sample(channel) ==
  IF Len(channel) > max_points
  THEN LET step == Len(channel) \div max_points
       IN [k \in 1..((Len(channel) + step - 1) \div step) |->
             channel[(k - 1) * step + 1]]
  ELSE channel

\* the points, or the timestamps, of a channel after update_trajectory_alpha
alpha_kept(channel, stamps, now) ==
  LET kept == fresh_indices(stamps, now)
  IN uniform_sample([k \in 1..Len(kept) |-> channel[kept[k]]])

\* the value of tracker after GestureTracker.__init__
NoTracker ==
  [timestamps |-> <<>>, middle_timestamps |-> <<>>, time |-> 0, calls |-> 0]

RECURSIVE SliceCrossed(_, _, _, _, _, _, _)
\* slices every fruit the trajectory crosses, sliced before or not
SliceCrossed(fruits, i, g, mid, hits, sm, now) ==
  IF i > Len(fruits) THEN [fruits |-> fruits, sm |-> sm]
  ELSE LET f == fruits[i] IN
       IF i \in hits
       THEN SliceCrossed([fruits EXCEPT ![i] = slice(f, now)], i + 1, g, mid,
                         hits,
                         IF f.type = "bomb" THEN increment_missed_fruits(sm)
                         ELSE update_score(sm, f),
                         now)
       ELSE SliceCrossed(fruits, i + 1, g, mid, hits, sm, now)

RECURSIVE SliceCollided(_, _, _, _, _, _, _)
\* GameEngine.update, "for fruit in collided_fruits": fruits from index i on
SliceCollided(fruits, i, g, mid, hits, sm, now) ==
  IF i > Len(fruits) THEN [fruits |-> fruits, sm |-> sm]
  ELSE LET f == fruits[i] IN
       IF collides(g, MiddleShape(mid), f, i \in hits, mid /\ i \in hits)
            /\ ~f.sliced
       THEN SliceCollided([fruits EXCEPT ![i] = slice(f, now)], i + 1, g, mid,
                          hits,
                          IF f.type = "bomb" THEN increment_missed_fruits(sm)
                          ELSE update_score(sm, f),
                          now)
       ELSE SliceCollided(fruits, i + 1, g, mid, hits, sm, now)

\* the detector's answer for the first already sliced fruit that the
\* trajectory of the tick crosses, when there is one
retested(fruits, g, hits) ==
  LET again == { i \in hits : fruits[i].sliced } IN
    IF is_swipe(g) /\ again # {}
    THEN LET i == CHOOSE k \in again : \A l \in again : k <= l
         IN [fruit |-> i, result |-> detect_collision(g, fruits[i], TRUE)]
    ELSE NoCollision

(* ========================= GameEngine (engine.py) ====================== *)

\* pygame events handle_events() distinguishes: QUIT, MOUSEBUTTONDOWN inside
\* or outside the start-button rectangle, KEYDOWN of K_SPACE
EventKinds == {"QUIT", "CLICK_START", "CLICK_OTHER", "SPACE"}

EventSeqs == UNION { [1..k -> EventKinds] : k \in 0..MaxEvents }

\* wall-clock time between two iterations of run() in Spec: a stall longer
\* than every timer of the game (countdown, guide phase, spawn interval), so
\* that dt is clamped in every frame
ElapsedChoices == {60}

\* GameEngine.__init__ (the init thread is started, run() is not yet called)
Init ==
  /\ game_state = "TITLE"
  /\ running = FALSE
  /\ pc = "idle"
  /\ current_time = StartClock
  /\ last_time = StartClock
  /\ dt = 0
  /\ events = <<>>
  /\ countdown_start_time = 0
  /\ end_reason = "unset"
  /\ initializing = TRUE
  /\ init_complete = FALSE
  /\ init_progress = 0
  /\ init_pc = "load"
  /\ camera = "None"
  /\ selected_duration = DEFAULT_GAME_DURATION
  /\ show_rules = FALSE
  /\ score_manager = ScoreManagerNew
  /\ GAME_DURATION = 0
  /\ fruit_manager = FruitManagerNew
  /\ calls = 0
  /\ last_call = "none"
  /\ streak = 0
  /\ trajectory = <<>>
  /\ middle_finger_trajectory = <<>>
  /\ collision = NoCollision
  /\ collided_fruits = <<>>
  /\ launch = NoLaunch
  /\ segment = NoSegment
  /\ tracker = NoTracker

\* run(): self.running = True
Run ==
  /\ pc = "idle"
  /\ running' = TRUE
  /\ pc' = "frame"
  /\ UNCHANGED <<game_state, current_time, last_time, dt, events,
                 countdown_start_time, end_reason, init_vars, layout_vars,
                 score_manager, GAME_DURATION, fruit_manager, ghost_vars>>

\* run(): top of the loop, the clock is read and the pending events fetched;
\* Inputs = the pairs <<elapsed wall-clock time, pending events>> offered
Frame(Inputs, Horizon) ==
  /\ pc = "frame"
  /\ \E in \in Inputs :
       /\ current_time + in[1] <= Horizon
       /\ init_pc # "done" => current_time + in[1] <= StartClock + MaxInitLag
       /\ current_time' = current_time + in[1]
       /\ dt' = Min(current_time + in[1] - last_time, MAX_DT)
       /\ last_time' = current_time + in[1]
       /\ events' = in[2]
  /\ pc' = "events"
  /\ UNCHANGED <<game_state, running, countdown_start_time, end_reason,
                 init_vars, layout_vars, score_manager, GAME_DURATION,
                 fruit_manager, ghost_vars>>

\* variant of next_game_state: the restart click starts the countdown at once
next_game_state_restart(e, state, rules) ==
  IF e = "CLICK_START" /\ state \in {"TITLE", "GAME_OVER"} /\ ~rules
  THEN "COUNTDOWN"
  ELSE IF e = "SPACE" /\ state = "PLAYING" THEN "paused"
  ELSE IF e = "SPACE" /\ state = "paused" THEN "PLAYING"
  ELSE state

\* handle_events(): the game state an event leads to, through
\* start_countdown / reset_game / pause_game / resume_game
next_game_state(e, state, rules) ==
  IF e = "CLICK_START" /\ state = "TITLE" /\ ~rules THEN "COUNTDOWN"
  ELSE IF e = "CLICK_START" /\ state = "GAME_OVER" THEN "TITLE"
  ELSE IF e = "SPACE" /\ state = "PLAYING" THEN "paused"
  ELSE IF e = "SPACE" /\ state = "paused" THEN "PLAYING"
  ELSE state

\* variant of runs_update: the simulation also ticks while paused
runs_update_paused(state) == state \in {"PLAYING", "paused"}

\* run(): "if self.game_state == PLAYING: self.update(dt, current_time)"
runs_update(state) == state = "PLAYING"

\* run(): "elif self.game_state == COUNTDOWN: self.update_countdown(...)"
runs_countdown(state) == ~runs_update(state) /\ state = "COUNTDOWN"

\* variant of countdown_over: the countdown ends only after more than 3 s
countdown_over_late(now, start) == now - start > COUNTDOWN_TIME

\* update_countdown(): "if elapsed >= 3"
countdown_over(now, start) == now - start >= COUNTDOWN_TIME

\* handle_events(): one iteration of "for event in pygame.event.get()"
HandleEvent ==
  /\ pc = "events"
  /\ events # <<>>
  /\ events' = Tail(events)
  /\ LET e == Head(events)
         click == e \in {"CLICK_START", "CLICK_OTHER"}
         to == next_game_state(e, game_state, show_rules)
         start_countdown == game_state = "TITLE" /\ to # "TITLE"
         reset_game == game_state = "GAME_OVER" /\ to # "GAME_OVER"
     IN /\ running' = IF e = "QUIT" THEN FALSE ELSE running
        /\ show_rules' = IF click /\ game_state = "TITLE" /\ show_rules
                          THEN FALSE ELSE show_rules
        /\ game_state' = to
        /\ countdown_start_time' = IF start_countdown THEN current_time
                                    ELSE countdown_start_time
        /\ score_manager' = IF reset_game THEN reset(score_manager)
                             ELSE score_manager
        /\ fruit_manager' = IF reset_game THEN clear_fruits(fruit_manager)
                             ELSE fruit_manager
  /\ UNCHANGED <<pc, current_time, last_time, dt, end_reason, init_vars,
                 selected_duration, GAME_DURATION, ghost_vars>>

\* run() -> update_countdown(current_time) -> start_game()
UpdateCountdown ==
  /\ pc = "events" /\ events = <<>>
  /\ runs_countdown(game_state)
  /\ pc' = "render"
  /\ IF countdown_over(current_time, countdown_start_time)
     THEN /\ game_state' = "PLAYING"
          /\ score_manager' = reset(score_manager)
          /\ fruit_manager' = clear_fruits(fruit_manager)
          /\ GAME_DURATION' = set_game_duration(selected_duration)
     ELSE UNCHANGED <<game_state, score_manager, fruit_manager, GAME_DURATION>>
  /\ UNCHANGED <<running, current_time, last_time, dt, events,
                 countdown_start_time, end_reason, init_vars, layout_vars,
                 ghost_vars>>

\* run() -> update(dt, current_time) -> end_game('time_over').  When Observed,
\* collision records what the detector answered for an already sliced fruit
\* that the trajectory of the tick crosses
Update(Trajectories, Xs, Kinds, Observed) ==
  /\ pc = "events" /\ events = <<>>
  /\ runs_update(game_state)
  /\ pc' = "render"
  /\ \E g \in Trajectories, mid \in BOOLEAN,
        hits \in SUBSET (1..Len(fruit_manager.fruits)),
        x \in Xs, kind \in Kinds :
       /\ camera = "None" => g.len = 0
       /\ ~is_swipe(g) => (hits = {} /\ ~mid)
       /\ ~spawn_due(fruit_manager, current_time)
            => (x = CHOOSE v \in Xs : TRUE) /\ (kind = CHOOSE v \in Kinds : TRUE)
       /\ \E cut \in {IF is_swipe(g)
                      THEN SliceCollided(fruit_manager.fruits, 1, g, mid, hits,
                                         score_manager, current_time)
                      ELSE [fruits |-> fruit_manager.fruits,
                            sm |-> score_manager]} :
          \E fm \in {fruit_manager_update(
                      [fruit_manager EXCEPT !.fruits = cut.fruits],
                      dt, current_time, x, kind)} :
          \E sm \in {update_game_time(cut.sm, dt, GAME_DURATION)} :
          \E left \in {RemoveOffScreen(fm.fruits)} :
             /\ Len(left) <= MaxFruits
             /\ fruit_manager' = [fm EXCEPT !.fruits = left]
             /\ score_manager' = sm
             /\ IF sm.game_over
                THEN game_state' = "GAME_OVER" /\ end_reason' = "time_over"
                ELSE UNCHANGED <<game_state, end_reason>>
       /\ collision' = IF Observed
                       THEN retested(fruit_manager.fruits, g, hits)
                       ELSE collision
       /\ trajectory' = IF Observed THEN gesture_points(g) ELSE trajectory
  /\ UNCHANGED <<running, current_time, last_time, dt, events,
                 countdown_start_time, init_vars, layout_vars, GAME_DURATION,
                 calls, last_call, streak,
                 middle_finger_trajectory, collided_fruits, launch,
                segment, tracker>>

\* run(): neither Playing nor Countdown, nothing is updated
UpdateNone ==
  /\ pc = "events" /\ events = <<>>
  /\ ~runs_update(game_state) /\ ~runs_countdown(game_state)
  /\ pc' = "render"
  /\ UNCHANGED <<game_state, running, current_time, last_time, dt, events,
                 countdown_start_time, end_reason, init_vars, layout_vars,
                 score_manager, GAME_DURATION, fruit_manager, ghost_vars>>

\* render(): the title and game-over screens draw the duration selector, the
\* title screen the rules button; a pressed mouse over one of them writes
\* the layout.  Then "while self.running" is tested.
Render(Mouse) ==
  /\ pc = "render"
  /\ pc' = IF running THEN "frame" ELSE "stopped"
  /\ \E m \in Mouse, d \in duration_options :
       /\ (initializing \/ game_state \notin {"TITLE", "GAME_OVER"})
            => m = "none"
       /\ m = "rules" => game_state = "TITLE"
       /\ m # "duration" => d = selected_duration
       /\ selected_duration' = d
       /\ show_rules' = IF m = "rules" THEN TRUE ELSE show_rules
  /\ UNCHANGED <<game_state, running, current_time, last_time, dt, events,
                 countdown_start_time, end_reason, init_vars, score_manager,
                 GAME_DURATION, fruit_manager, ghost_vars>>

(* ------------------- GameEngine._async_init (thread) ------------------- *)

\* the stages of the try block: progress written on entry, next stage
InitStages ==
  [load     |-> [progress |-> 10, next |-> "camera"],
   camera   |-> [progress |-> 30, next |-> "detector"],
   detector |-> [progress |-> 60, next |-> "warmup"],
   warmup   |-> [progress |-> 80, next |-> "music"]]

\* one stage: its call returns, raises, or the timeout check after it raises
AsyncInitStage ==
  /\ init_pc \in DOMAIN InitStages
  /\ init_progress' = InitStages[init_pc].progress
  /\ \E outcome \in {"ok", "timeout", "error"} :
       /\ init_pc' = IF outcome = "ok" THEN InitStages[init_pc].next
                      ELSE "except"
       /\ camera' = IF init_pc = "camera" /\ outcome # "error"
                     THEN "Camera" ELSE camera
  /\ UNCHANGED <<initializing, init_complete, engine_vars, layout_vars,
                 score_manager, GAME_DURATION, fruit_manager, ghost_vars>>

\* play_music() and the completion writes
AsyncInitFinish ==
  /\ init_pc = "music"
  /\ \E outcome \in {"ok", "error"} :
       IF outcome = "ok"
       THEN /\ init_progress' = 100
            /\ init_complete' = TRUE
            /\ initializing' = FALSE
            /\ init_pc' = "done"
       ELSE /\ init_pc' = "except"
            /\ UNCHANGED <<init_progress, init_complete, initializing>>
  /\ UNCHANGED <<camera, engine_vars, layout_vars, score_manager,
                 GAME_DURATION, fruit_manager, ghost_vars>>

\* a handler that ends the initialization without reporting it complete
AsyncInitExcept_incomplete ==
  /\ init_pc = "except"
  /\ initializing' = FALSE
  /\ init_pc' = "done"
  /\ UNCHANGED <<init_complete, init_progress, camera, engine_vars,
                 layout_vars, score_manager, GAME_DURATION, fruit_manager,
                 ghost_vars>>

\* except TimeoutError / except Exception
AsyncInitExcept ==
  /\ init_pc = "except"
  /\ initializing' = FALSE
  /\ init_complete' = TRUE
  /\ init_progress' = 100
  /\ init_pc' = "done"
  /\ UNCHANGED <<camera, engine_vars, layout_vars, score_manager,
                 GAME_DURATION, fruit_manager, ghost_vars>>

AsyncInit == AsyncInitStage \/ AsyncInitFinish \/ AsyncInitExcept

(* ------------------------------ Spec ----------------------------------- *)

MouseChoices == {"none", "rules"}
SpawnKinds == {"watermelon", "bomb"}

Next ==
  \/ Run
  \/ Frame(ElapsedChoices \X EventSeqs, StartClock + MaxClock)
  \/ HandleEvent
  \/ UpdateCountdown
  \/ Update(Gestures, SpawnXs, SpawnKinds, FALSE)
  \/ UpdateNone
  \/ Render(MouseChoices)
  \/ AsyncInit

Spec == Init /\ [][Next]_vars

(* ------------- SpecScore: the ScoreManager under any calls ------------- *)

\* time steps handed to update_game_time (tenths of a second)
ScoreSteps == {0, 1, 150}

\* a ScoreManager right after construction, the duration installed as
\* start_game() does
InitScore ==
  /\ game_state = "TITLE"
  /\ running = FALSE
  /\ pc = "idle"
  /\ current_time = StartClock
  /\ last_time = StartClock
  /\ dt = 0
  /\ events = <<>>
  /\ countdown_start_time = 0
  /\ end_reason = "unset"
  /\ initializing = TRUE
  /\ init_complete = FALSE
  /\ init_progress = 0
  /\ init_pc = "load"
  /\ camera = "None"
  /\ selected_duration = DEFAULT_GAME_DURATION
  /\ show_rules = FALSE
  /\ score_manager = ScoreManagerNew
  /\ GAME_DURATION \in { set_game_duration(d) : d \in duration_options }
  /\ fruit_manager = FruitManagerNew
  /\ calls = 0
  /\ last_call = "none"
  /\ streak = 0
  /\ trajectory = <<>>
  /\ middle_finger_trajectory = <<>>
  /\ collision = NoCollision
  /\ collided_fruits = <<>>
  /\ launch = NoLaunch
  /\ segment = NoSegment
  /\ tracker = NoTracker

ScoreCall(name) ==
  /\ calls < MaxCalls
  /\ calls' = calls + 1
  /\ last_call' = name
  /\ UNCHANGED <<engine_vars, init_vars, layout_vars, GAME_DURATION,
                 fruit_manager, detect_vars, launch,
                segment, tracker>>

CallUpdateScore ==
  /\ ScoreCall("update_score")
  /\ \E kind \in FRUIT_TYPES :
       score_manager' = update_score(score_manager, Fruit(400, WINDOW_HEIGHT, kind))
  /\ streak' = IF streak >= 0 THEN streak + 1 ELSE streak

CallIncrementMissedFruits ==
  /\ ScoreCall("increment_missed_fruits")
  /\ score_manager' = increment_missed_fruits(score_manager)
  /\ streak' = -1

CallUpdateGameTime ==
  /\ ScoreCall("update_game_time")
  /\ \E step \in ScoreSteps :
       score_manager' = update_game_time(score_manager, step, GAME_DURATION)
  /\ UNCHANGED streak

CallReset ==
  /\ ScoreCall("reset")
  /\ score_manager' = reset(score_manager)
  /\ streak' = 0

NextScore ==
  \/ CallUpdateScore
  \/ CallIncrementMissedFruits
  \/ CallUpdateGameTime
  \/ CallReset

SpecScore == InitScore /\ [][NextScore]_vars

(* ------ SpecTime: whole games frame by frame, no hand in the camera ----- *)

\* frames of SpecTime: events arrive in frames that take no time; while a
\* countdown or a game runs a frame may also take one tenth of a second
TimeInputs ==
  { <<0, q>> : q \in EventSeqs }
  \cup (IF game_state \in {"COUNTDOWN", "PLAYING"} THEN { <<1, <<>> >> } ELSE {})

NoGesture == { [len |-> 0, dist |-> 0] }

NextTime ==
  \/ Run
  \/ Frame(TimeInputs, StartClock + COUNTDOWN_TIME + 900 + TimeSlack)
  \/ HandleEvent
  \/ UpdateCountdown
  \/ Update(NoGesture, SpawnXs, {"apple"}, FALSE)
  \/ UpdateNone
  \/ Render({"none", "duration"})
  \/ AsyncInit

SpecTime == Init /\ [][NextTime]_vars

(* ---- SpecPlay: one game tick by tick (0.1 s frames), with gestures ---- *)

\* frames of SpecPlay: the start click arrives on the title screen in a frame
\* that takes no time; afterwards every frame takes one tenth of a second
PlayInputs ==
  IF game_state = "TITLE"
  THEN { <<0, <<>> >>, <<0, <<"CLICK_START">> >> }
  ELSE { <<1, <<>> >> }

NextPlay ==
  \/ Run
  \/ Frame(PlayInputs, StartClock + COUNTDOWN_TIME + MaxPlayTicks)
  \/ HandleEvent
  \/ UpdateCountdown
  \/ Update(Gestures, SpawnXs, SpawnKinds, TRUE)
  \/ UpdateNone
  \/ Render({"none"})
  \/ AsyncInit

SpecPlay == Init /\ [][NextPlay]_vars

(* ---- SpecDetect: the tracker's channels and the detector on their own --- *)
\* The trajectories and the fruits are drawn from small sets of points around
\* two circles; the actions are the tracker's update and the two detectors.

\* points around the circle of radius 40 px centred at (100, 100) px: left of
\* it, right of it, further right, below left, and on its lowest point
TrajectoryPoints ==
  { <<400, 1000>>, <<1600, 1000>>, <<2200, 1000>>, <<400, 1400>>,
    <<1000, 1400>> }

RECURSIVE SeqsUpTo(_, _)
SeqsUpTo(S, n) ==
  IF n = 0 THEN { <<>> }
  ELSE LET shorter == SeqsUpTo(S, n - 1)
       IN shorter \cup { Append(q, p) : q \in { r \in shorter : Len(r) = n - 1 },
                                        p \in S }

MiddleTrajectories ==
  { <<>>, << <<400, 1000>>, <<1600, 1000>> >>,
    << <<1600, 1000>>, <<2200, 1000>> >> }

\* a fruit in flight at (x, y)
FruitAt(x, y, fruit_type) == [Fruit(x, WINDOW_HEIGHT, fruit_type) EXCEPT !.y = y]

\* lists of fruits on the two circles, centred at (100, 100) px and at
\* (190, 100) px: every kind, sliced and unsliced, in both orders
TargetLists ==
  LET apple == FruitAt(1000, 1000, "apple")
      melon == FruitAt(1000, 1000, "watermelon")
      bomb == FruitAt(1900, 1000, "bomb")
      far_melon == FruitAt(1900, 1000, "watermelon")
  IN { <<apple>>, <<melon>>, <<slice(apple, StartClock)>>,
       <<melon, bomb>>, <<bomb, melon>>, <<apple, far_melon>>,
       <<far_melon, apple>>, <<slice(melon, StartClock), bomb>> }

\* the index and middle fingertips of a detected hand, and the thresholds at the slowest
\* and the fastest speed
Hands ==
  { [index |-> <<400, 1000>>, middle |-> <<400, 1400>>],
    [index |-> <<400, 1100>>, middle |-> <<400, 1000>>],
    [index |-> <<400, 1400>>, middle |-> <<400, 1400>>] }
MinDistances == { base_min_distance, max_min_distance }

InitDetect ==
  /\ game_state = "PLAYING"
  /\ running = TRUE
  /\ pc = "update"
  /\ current_time = StartClock
  /\ last_time = StartClock
  /\ dt = 0
  /\ events = <<>>
  /\ countdown_start_time = 0
  /\ end_reason = "unset"
  /\ initializing = FALSE
  /\ init_complete = TRUE
  /\ init_progress = 100
  /\ init_pc = "done"
  /\ camera = "Camera"
  /\ selected_duration = DEFAULT_GAME_DURATION
  /\ show_rules = FALSE
  /\ score_manager = ScoreManagerNew
  /\ GAME_DURATION = set_game_duration(DEFAULT_GAME_DURATION)
  /\ fruit_manager \in { [FruitManagerNew EXCEPT !.fruits = l] : l \in TargetLists }
  /\ calls = 0
  /\ last_call = "none"
  /\ streak = 0
  /\ trajectory \in SeqsUpTo(TrajectoryPoints, MaxPoints)
  /\ middle_finger_trajectory \in MiddleTrajectories
  /\ collision = NoCollision
  /\ collided_fruits = <<>>
  /\ launch = NoLaunch
  /\ segment = NoSegment
  /\ tracker = NoTracker

DetectUnchanged ==
  UNCHANGED <<engine_vars, init_vars, layout_vars, score_manager,
              GAME_DURATION, fruit_manager, calls, streak, launch,
                segment, tracker>>

\* gesture_tracker.update_landmarks(landmarks) for a detected hand
UpdateLandmarks ==
  /\ \E landmarks \in Hands,
        min_distance \in MinDistances, middle_min_distance \in MinDistances :
       \E t \in { limit_length(trajectory
                     \o sampled_points(trajectory, landmarks.index,
                                       min_distance)) } :
       \E m \in { limit_length(middle_finger_trajectory
                     \o sampled_points(middle_finger_trajectory,
                                       landmarks.middle,
                                       middle_min_distance)) } :
         /\ Len(t) <= MaxPoints
         /\ Len(m) <= MaxPoints
         /\ trajectory' = t
         /\ middle_finger_trajectory' = m
  /\ last_call' = "update_landmarks"
  /\ collision' = NoCollision
  /\ collided_fruits' = <<>>
  /\ DetectUnchanged

\* gesture_tracker.update_landmarks([]): no hand was detected
UpdateLandmarksEmpty ==
  /\ trajectory' = <<>>
  /\ UNCHANGED middle_finger_trajectory
  /\ last_call' = "update_landmarks_empty"
  /\ collision' = NoCollision
  /\ collided_fruits' = <<>>
  /\ DetectUnchanged

\* collision_detector.detect_collision(trajectory, fruit)
DetectCollision ==
  /\ \E i \in 1..Len(fruit_manager.fruits) :
       collision' =
         [fruit |-> i,
          result |-> detect_collision(Shape(trajectory), fruit_manager.fruits[i],
                        segment_collision(trajectory, fruit_manager.fruits[i]))]
  /\ last_call' = "detect_collision"
  /\ collided_fruits' = <<>>
  /\ UNCHANGED <<trajectory, middle_finger_trajectory>>
  /\ DetectUnchanged

\* collision_detector.detect_multiple_collisions(trajectory, middle, fruits)
DetectMultipleCollisions ==
  /\ collided_fruits' =
       detect_multiple_collisions(trajectory, middle_finger_trajectory,
                                  fruit_manager.fruits)
  /\ last_call' = "detect_multiple_collisions"
  /\ collision' = NoCollision
  /\ UNCHANGED <<trajectory, middle_finger_trajectory>>
  /\ DetectUnchanged

NextDetect ==
  \/ UpdateLandmarks
  \/ UpdateLandmarksEmpty
  \/ DetectCollision
  \/ DetectMultipleCollisions

SpecDetect == InitDetect /\ [][NextDetect]_vars

(* ------- SpecLaunch: Fruit.__init__ over positions and random draws ----- *)

\* spawn positions (tenths of a pixel) from the left to the right end of the
\* range spawn_fruit draws from, with the positions next to the ends of the
\* excluded middle band and 100 px left and right of the centre
LaunchXs == {400, 1500, 2990, 3000, 3190, 4810, 5000, 5010, 6500, 7600}

\* y of the constructed fruit: the bottom edge, where FruitManager spawns, and
\* the top edge
LaunchYs == {WINDOW_HEIGHT, 0}

\* random.uniform(min_horizontal, max_horizontal): the ends and the middle
HorizontalParams(range) ==
  {range[1] * 10, (range[1] + range[2]) * 5, range[2] * 10}

\* random.uniform(-0.1, 0.1)
RandomOffsets == {-100, 0, 100}

\* the arguments and the random draws of a Fruit about to be constructed
InitLaunch ==
  /\ game_state = "PLAYING"
  /\ running = TRUE
  /\ pc = "update"
  /\ current_time = StartClock
  /\ last_time = StartClock
  /\ dt = 0
  /\ events = <<>>
  /\ countdown_start_time = 0
  /\ end_reason = "unset"
  /\ initializing = FALSE
  /\ init_complete = TRUE
  /\ init_progress = 100
  /\ init_pc = "done"
  /\ camera = "Camera"
  /\ selected_duration = DEFAULT_GAME_DURATION
  /\ show_rules = FALSE
  /\ score_manager = ScoreManagerNew
  /\ GAME_DURATION = set_game_duration(DEFAULT_GAME_DURATION)
  /\ fruit_manager = FruitManagerNew
  /\ calls = 0
  /\ last_call = "none"
  /\ streak = 0
  /\ trajectory = <<>>
  /\ middle_finger_trajectory = <<>>
  /\ collision = NoCollision
  /\ collided_fruits = <<>>
  /\ \E x \in LaunchXs, y \in LaunchYs :
       \E horizontal_param
            \in HorizontalParams(_calculate_horizontal_param_range(x)),
          random_offset_x \in RandomOffsets, random_offset_y \in RandomOffsets :
         launch = [NoLaunch EXCEPT !.x = x, !.y = y,
                                   !.horizontal_param = horizontal_param,
                                   !.random_offset_x = random_offset_x,
                                   !.random_offset_y = random_offset_y]
  /\ segment = NoSegment
  /\ tracker = NoTracker

\* Fruit(x, y, fruit_type) for the arguments and draws held in launch
Launch ==
  /\ launch.branch = "unset"
  /\ \E range \in {_calculate_horizontal_param_range(launch.x)} :
     \E v \in {_calculate_trajectory(launch.x, launch.y, range,
                                     launch.horizontal_param,
                                     launch.random_offset_x,
                                     launch.random_offset_y)} :
       launch' =
         [launch EXCEPT
            !.horizontal_param_range = range,
            !.branch = clamp_branch(launch.y, launch.horizontal_param,
                                    launch.random_offset_y),
            !.velocity_x = Scaled(v[1], FRUIT_VELOCITY + EXTRA_VELOCITY, UNIT),
            !.velocity_y = Scaled(v[2], FRUIT_VELOCITY + EXTRA_VELOCITY, UNIT)]
  /\ UNCHANGED <<engine_vars, init_vars, layout_vars, score_manager,
                 GAME_DURATION, fruit_manager, calls, last_call, streak,
                 detect_vars, segment, tracker>>

NextLaunch == Launch

SpecLaunch == InitLaunch /\ [][NextLaunch]_vars

(* ----- SpecSegment: line_circle_collision over a grid of integer points --- *)

GridPoints == (0..GridMax) \X (0..GridMax)
CircleCenters == { <<1, 1>>, <<2, 0>>, <<0, 3>> }
Radii == {1, 2}

\* the arguments of a call about to be made
InitSegment ==
  /\ game_state = "PLAYING"
  /\ running = TRUE
  /\ pc = "update"
  /\ current_time = StartClock
  /\ last_time = StartClock
  /\ dt = 0
  /\ events = <<>>
  /\ countdown_start_time = 0
  /\ end_reason = "unset"
  /\ initializing = FALSE
  /\ init_complete = TRUE
  /\ init_progress = 100
  /\ init_pc = "done"
  /\ camera = "Camera"
  /\ selected_duration = DEFAULT_GAME_DURATION
  /\ show_rules = FALSE
  /\ score_manager = ScoreManagerNew
  /\ GAME_DURATION = set_game_duration(DEFAULT_GAME_DURATION)
  /\ fruit_manager = FruitManagerNew
  /\ calls = 0
  /\ last_call = "none"
  /\ streak = 0
  /\ trajectory = <<>>
  /\ middle_finger_trajectory = <<>>
  /\ collision = NoCollision
  /\ collided_fruits = <<>>
  /\ launch = NoLaunch
  /\ \E p0 \in GridPoints, p1 \in GridPoints, c \in CircleCenters, r \in Radii :
       segment = [NoSegment EXCEPT !.line_start = p0, !.line_end = p1,
                                   !.circle_center = c, !.radius = r]
  /\ tracker = NoTracker

\* line_circle_collision(line_start, line_end, circle_center, radius), and
\* is_point_in_circle(line_start, circle_center, radius) beside it
LineCircleCollision ==
  /\ ~segment.called
  /\ segment' =
       [segment EXCEPT
          !.called = TRUE,
          !.result = line_circle_collision(segment.line_start, segment.line_end,
                                           segment.circle_center, segment.radius),
          !.point_in_circle = is_point_in_circle(segment.line_start,
                                                 segment.circle_center,
                                                 segment.radius)]
  /\ UNCHANGED <<engine_vars, init_vars, layout_vars, score_manager,
                 GAME_DURATION, fruit_manager, calls, last_call, streak,
                 detect_vars, launch, tracker>>

NextSegment == LineCircleCollision

SpecSegment == InitSegment /\ [][NextSegment]_vars

(* ------- SpecTracker: the GestureTracker under the wall clock ----------- *)

\* the index and middle fingertips of a detected hand, on two horizontal
\* lines, in tenths of a pixel
TrackerHands ==
  { [index |-> <<0, 1000>>, middle |-> <<0, 1400>>],
    [index |-> <<5000, 1000>>, middle |-> <<300, 1400>>],
    [index |-> <<7900, 1000>>, middle |-> <<7900, 1400>>] }

\* the milliseconds between two calls: a frame, and a stall
TrackerElapsed == {50, 1000}

InitTracker ==
  /\ game_state = "PLAYING"
  /\ running = TRUE
  /\ pc = "update"
  /\ current_time = StartClock
  /\ last_time = StartClock
  /\ dt = 0
  /\ events = <<>>
  /\ countdown_start_time = 0
  /\ end_reason = "unset"
  /\ initializing = FALSE
  /\ init_complete = TRUE
  /\ init_progress = 100
  /\ init_pc = "done"
  /\ camera = "Camera"
  /\ selected_duration = DEFAULT_GAME_DURATION
  /\ show_rules = FALSE
  /\ score_manager = ScoreManagerNew
  /\ GAME_DURATION = set_game_duration(DEFAULT_GAME_DURATION)
  /\ fruit_manager = FruitManagerNew
  /\ calls = 0
  /\ last_call = "none"
  /\ streak = 0
  /\ trajectory = <<>>
  /\ middle_finger_trajectory = <<>>
  /\ collision = NoCollision
  /\ collided_fruits = <<>>
  /\ launch = NoLaunch
  /\ segment = NoSegment
  /\ tracker = NoTracker

TrackerUnchanged ==
  UNCHANGED <<engine_vars, init_vars, layout_vars, score_manager,
              GAME_DURATION, fruit_manager, calls, streak, collision,
              collided_fruits, launch, segment>>

\* the last point of a channel, or the new point on an empty channel
last_or(channel, point) ==
  IF channel = <<>> THEN point ELSE channel[Len(channel)]

\* the channel's last timestamp, or the new one on an empty channel
last_stamp_or(stamps, timestamp) ==
  IF stamps = <<>> THEN timestamp ELSE stamps[Len(stamps)]

\* gesture_tracker.update_landmarks(landmarks) for a detected hand, at the
\* wall clock time timestamp; the hands lie on horizontal lines, so the
\* distance to the last point of a channel is the difference of the x
TrackLandmarks ==
  /\ tracker.calls < MaxTrackerCalls
  /\ \E landmarks \in TrackerHands, elapsed \in TrackerElapsed :
       LET timestamp == tracker.time + elapsed
           min_distance ==
             speed_min_distance(
               Abs(landmarks.index[1] - last_or(trajectory, landmarks.index)[1]),
               timestamp - last_stamp_or(tracker.timestamps, timestamp))
           middle_min_distance ==
             speed_min_distance(
               Abs(landmarks.middle[1]
                     - last_or(middle_finger_trajectory, landmarks.middle)[1]),
               timestamp - last_stamp_or(tracker.middle_timestamps, timestamp))
       IN \E added \in { sampled_points(trajectory, landmarks.index,
                                        min_distance) } :
          \E middle_added \in { sampled_points(middle_finger_trajectory,
                                               landmarks.middle,
                                               middle_min_distance) } :
            /\ trajectory' = limit_length(trajectory \o added)
            /\ middle_finger_trajectory' =
                 limit_length(middle_finger_trajectory \o middle_added)
            /\ tracker' =
                 [timestamps |->
                    limit_length(tracker.timestamps
                      \o sampled_timestamps(tracker.timestamps, Len(added),
                                            timestamp)),
                  middle_timestamps |->
                    limit_length(tracker.middle_timestamps
                      \o sampled_timestamps(tracker.middle_timestamps,
                                            Len(middle_added), timestamp)),
                  time |-> timestamp,
                  calls |-> tracker.calls + 1]
  /\ last_call' = "update_landmarks"
  /\ TrackerUnchanged

\* gesture_tracker.update_landmarks([]): no hand was detected
TrackLandmarksEmpty ==
  /\ tracker.calls < MaxTrackerCalls
  /\ \E elapsed \in TrackerElapsed :
       tracker' = [tracker EXCEPT !.timestamps = <<>>,
                                  !.time = @ + elapsed,
                                  !.calls = @ + 1]
  /\ trajectory' = <<>>
  /\ UNCHANGED middle_finger_trajectory
  /\ last_call' = "update_landmarks_empty"
  /\ TrackerUnchanged

\* gesture_tracker.update_trajectory_alpha(dt), at the wall clock time now
UpdateTrajectoryAlpha ==
  /\ tracker.calls < MaxTrackerCalls
  /\ \E elapsed \in TrackerElapsed :
       LET now == tracker.time + elapsed
       IN /\ trajectory' = alpha_kept(trajectory, tracker.timestamps, now)
          /\ middle_finger_trajectory' =
               alpha_kept(middle_finger_trajectory, tracker.middle_timestamps,
                          now)
          /\ tracker' =
               [timestamps |->
                  alpha_kept(tracker.timestamps, tracker.timestamps, now),
                middle_timestamps |->
                  alpha_kept(tracker.middle_timestamps,
                             tracker.middle_timestamps, now),
                time |-> now,
                calls |-> tracker.calls + 1]
  /\ last_call' = "update_trajectory_alpha"
  /\ TrackerUnchanged

NextTracker ==
  \/ TrackLandmarks
  \/ TrackLandmarksEmpty
  \/ UpdateTrajectoryAlpha

SpecTracker == InitTracker /\ [][NextTracker]_vars

(* ------- SpecPhysics: one fruit under physics steps of any length ------- *)

\* the time steps handed to apply_physics and to Fruit.update, in tenths of a
\* second: those of the engine and longer ones
PhysicsSteps == {0, 1, 3}

\* a fruit in flight, unsliced, and one sliced in flight after two steps
PhysicsFruits ==
  { FruitAt(1000, 3000, "apple"),
    slice(apply_physics(apply_physics(FruitAt(4000, 3000, "bomb"), 1), 1),
          StartClock) }

InitPhysics ==
  /\ game_state = "PLAYING"
  /\ running = TRUE
  /\ pc = "update"
  /\ current_time = StartClock
  /\ last_time = StartClock
  /\ dt = 0
  /\ events = <<>>
  /\ countdown_start_time = 0
  /\ end_reason = "unset"
  /\ initializing = FALSE
  /\ init_complete = TRUE
  /\ init_progress = 100
  /\ init_pc = "done"
  /\ camera = "Camera"
  /\ selected_duration = DEFAULT_GAME_DURATION
  /\ show_rules = FALSE
  /\ score_manager = ScoreManagerNew
  /\ GAME_DURATION = set_game_duration(DEFAULT_GAME_DURATION)
  /\ fruit_manager \in { [FruitManagerNew EXCEPT !.fruits = <<f>>] :
                           f \in PhysicsFruits }
  /\ calls = 0
  /\ last_call = "none"
  /\ streak = 0
  /\ trajectory = <<>>
  /\ middle_finger_trajectory = <<>>
  /\ collision = NoCollision
  /\ collided_fruits = <<>>
  /\ launch = NoLaunch
  /\ segment = NoSegment
  /\ tracker = NoTracker

\* a call on the fruit, which takes it to the fruit after
PhysicsCall(name, after) ==
  /\ calls < MaxCalls
  /\ calls' = calls + 1
  /\ last_call' = name
  /\ fruit_manager' = [fruit_manager EXCEPT !.fruits = <<after>>]
  /\ UNCHANGED <<engine_vars, init_vars, layout_vars, score_manager,
                 GAME_DURATION, streak, detect_vars, launch, segment, tracker>>

\* physics_engine.apply_physics(fruit, dt)
ApplyPhysics ==
  \E step \in PhysicsSteps :
    PhysicsCall("apply_physics", apply_physics(fruit_manager.fruits[1], step))

\* fruit.update(dt, physics_engine)
FruitUpdate ==
  \E step \in PhysicsSteps :
    PhysicsCall("update", fruit_update(fruit_manager.fruits[1], step))

\* fruit.slice(current_time)
FruitSlice ==
  /\ ~fruit_manager.fruits[1].sliced
  /\ PhysicsCall("slice", slice(fruit_manager.fruits[1], current_time))

NextPhysics ==
  \/ ApplyPhysics
  \/ FruitUpdate
  \/ FruitSlice

SpecPhysics == InitPhysics /\ [][NextPhysics]_vars

(* ---- SpecEnd: the last misses of a game, two targets in the air -------- *)
\* The game is taken up in a state Spec reaches after frames that stalled:
\* 6.4 s after construction, 7 ticks into the game, four bombs sliced, and two
\* unsliced targets in the air, spawned in the last two ticks.  From here the
\* frames take a tenth of a second.

\* the two targets: after two physics steps and after one
EndFruitLists ==
  { << apply_physics(apply_physics(Fruit(400, WINDOW_HEIGHT, first), 1), 1),
       apply_physics(Fruit(400, WINDOW_HEIGHT, second), 1) >> :
      first \in SpawnKinds, second \in SpawnKinds }

InitEnd ==
  /\ game_state = "PLAYING"
  /\ running = TRUE
  /\ pc = "frame"
  /\ current_time = 640
  /\ last_time = 640
  /\ dt = 1
  /\ events = <<>>
  /\ countdown_start_time = 160
  /\ end_reason = "unset"
  /\ initializing = FALSE
  /\ init_complete = TRUE
  /\ init_progress = 100
  /\ init_pc = "done"
  /\ camera = "Camera"
  /\ selected_duration = DEFAULT_GAME_DURATION
  /\ show_rules = FALSE
  /\ score_manager = [score |-> 10, combo |-> 0, max_combo |-> 1,
                      missed_fruits |-> MAX_MISSED_FRUITS - 1,
                      game_time |-> 7, game_over |-> FALSE]
  /\ GAME_DURATION = set_game_duration(DEFAULT_GAME_DURATION)
  /\ fruit_manager \in
       { [fruits |-> l, last_spawn_time |-> 640, guide_phase |-> FALSE,
          guide_start_time |-> 280, guide_index |-> 1] : l \in EndFruitLists }
  /\ calls = 0
  /\ last_call = "none"
  /\ streak = 0
  /\ trajectory = <<>>
  /\ middle_finger_trajectory = <<>>
  /\ collision = NoCollision
  /\ collided_fruits = <<>>
  /\ launch = NoLaunch
  /\ segment = NoSegment
  /\ tracker = NoTracker

\* frames of SpecEnd: a tenth of a second each; the restart click and the
\* start click arrive on the game-over screen and on the title screen
EndInputs ==
  IF game_state \in {"GAME_OVER", "TITLE"}
  THEN { <<1, <<>> >>, <<1, <<"CLICK_START">> >> }
  ELSE { <<1, <<>> >> }

NextEnd ==
  \/ Frame(EndInputs, 640 + MaxPlayTicks)
  \/ HandleEvent
  \/ UpdateCountdown
  \/ Update(Gestures, SpawnXs, SpawnKinds, FALSE)
  \/ UpdateNone
  \/ Render({"none"})

SpecEnd == InitEnd /\ [][NextEnd]_vars

(* ============================== claims ================================ *)

\* the step changes game_state from one given state to another
Edge(from, to) == game_state = from /\ game_state' = to

\* the event handle_events() is handling in this step
Handling(e) == pc = "events" /\ events # <<>> /\ Head(events) = e

\* C1: the game state changes only along Title->Countdown (start click),
\* Countdown->Playing (countdown timer expired), Playing->Paused and
\* Paused->Playing (space key), Playing->GameOver (the score manager reports
\* game over) and GameOver->Title (restart click); so GameOver never leads
\* directly to Countdown or Playing, nor Paused to GameOver or Title.
C1_StateEdges ==
  [][game_state' # game_state =>
       \/ Edge("TITLE", "COUNTDOWN") /\ Handling("CLICK_START")
       \/ /\ Edge("COUNTDOWN", "PLAYING")
          /\ current_time - countdown_start_time >= COUNTDOWN_TIME
       \/ Edge("PLAYING", "paused") /\ Handling("SPACE")
       \/ Edge("paused", "PLAYING") /\ Handling("SPACE")
       \/ Edge("PLAYING", "GAME_OVER") /\ score_manager'.game_over
       \/ Edge("GAME_OVER", "TITLE") /\ Handling("CLICK_START")]_vars

\* C1 witness: a full cycle, back on the title screen after a game that ended
C1_Witness ==
  /\ game_state = "TITLE"
  /\ end_reason # "unset"
  /\ pc = "render"

\* C2: when Playing gives way to GameOver the recorded reason is time_over
\* only if the missed count has not reached its threshold (slices are counted
\* before the game time in a tick, so a threshold reached was reached first);
\* otherwise it is the life-exhaustion reason.
C2_EndReason ==
  [][Edge("PLAYING", "GAME_OVER") =>
       (end_reason' = "time_over"
          <=> score_manager'.missed_fruits < MAX_MISSED_FRUITS)]_vars

\* C3: game_over is true exactly when game_time has reached the duration or
\* missed_fruits has reached MAX_MISSED_FRUITS, after any sequence of calls.
C3_GameOverIff ==
  score_manager.game_over
    <=> \/ score_manager.game_time >= GAME_DURATION
        \/ score_manager.missed_fruits >= MAX_MISSED_FRUITS

\* C3 witness: game over by time alone, one miss short of the threshold
C3_Witness ==
  /\ score_manager.game_over
  /\ score_manager.game_time = GAME_DURATION
  /\ score_manager.missed_fruits = MAX_MISSED_FRUITS - 1
  /\ last_call = "update_game_time"

RECURSIVE SumAwards(_)
\* 10 + 25 + 40 + ... : the awards of n consecutive slices
SumAwards(n) == IF n = 0 THEN 0 ELSE SumAwards(n - 1) + 10 + 15 * (n - 1)

C5_MissFrame ==
  [][(calls' = calls + 1 /\ last_call' = "increment_missed_fruits") =>
       /\ score_manager'.combo = 0
       /\ score_manager'.missed_fruits = score_manager.missed_fruits + 1
       /\ score_manager'.score = score_manager.score
       /\ score_manager'.max_combo = score_manager.max_combo
       /\ score_manager'.game_time = score_manager.game_time]_vars

\* C5 witness: a miss taken with a running combo, a score and game time
C5_Witness ==
  /\ last_call = "increment_missed_fruits"
  /\ score_manager.combo = 0
  /\ score_manager.max_combo >= 2
  /\ score_manager.score > 0
  /\ score_manager.game_time > 0
  /\ score_manager.missed_fruits = 1

CountdownTick == pc = "events" /\ events = <<>> /\ pc' = "render"

\* C7: the state stays Countdown while less than 3 s have elapsed since
\* start_countdown and becomes Playing at the first tick with 3 s or more
\* elapsed; at that entry score, combo, max_combo, missed_fruits and
\* game_time are 0, game_over is false and no fruit is live.
C7_Countdown ==
  [][game_state = "COUNTDOWN" =>
       IF CountdownTick
            /\ current_time - countdown_start_time >= COUNTDOWN_TIME
       THEN /\ game_state' = "PLAYING"
            /\ score_manager' =
                 [score |-> 0, combo |-> 0, max_combo |-> 0,
                  missed_fruits |-> 0, game_time |-> 0, game_over |-> FALSE]
            /\ fruit_manager'.fruits = <<>>
       ELSE game_state' = "COUNTDOWN"]_vars

\* C7 witness: entry into Playing of a second game, exactly 3 s after
\* start_countdown (no tick of the new game has run: no fruit is live)
C7_Witness ==
  /\ game_state = "PLAYING"
  /\ pc = "render"
  /\ end_reason # "unset"
  /\ current_time - countdown_start_time = COUNTDOWN_TIME
  /\ fruit_manager.fruits = <<>>
  /\ score_manager.game_time = 0

\* C8: every step taken while Paused leaves the score manager and the fruit
\* manager (the live fruits, their positions and velocities) unchanged, and
\* the only other state it can lead to is Playing.
C8_PausedFrozen ==
  [][game_state = "paused" =>
       /\ score_manager' = score_manager
       /\ fruit_manager' = fruit_manager
       /\ game_state' \in {"paused", "PLAYING"}]_vars

\* C8 witness: a loop iteration spent in Paused with a fruit in flight and a
\* spawn overdue (every tick of Spec spawns, so no tick ran at this time)
C8_Witness ==
  /\ game_state = "paused"
  /\ pc = "render"
  /\ \E i \in 1..Len(fruit_manager.fruits) : ~fruit_manager.fruits[i].sliced
  /\ fruit_manager.last_spawn_time > 0
  /\ current_time - fruit_manager.last_spawn_time > FRUIT_SPAWN_RATE

\* C9: the state leaves Title only once the initialization thread has set
\* init_complete; a start click handled earlier leaves the state at Title.
C9_InitGate ==
  [][Edge("TITLE", "COUNTDOWN") => init_complete]_vars

\* fruits of the list sliced at the time now whose being a bomb is b
SlicedAt(fruits, now, b) ==
  Cardinality({ i \in 1..Len(fruits) :
                  /\ fruits[i].sliced
                  /\ fruits[i].sliced_time = now
                  /\ (fruits[i].type = "bomb") = b })

\* C10: in a Playing tick missed_fruits grows by exactly the number of bombs
\* sliced in it (slicing other fruits does not change it); a tick that slices
\* only bombs leaves the score unchanged and the combo at 0.
C10_BombSlice ==
  [][(game_state = "PLAYING" /\ pc = "events" /\ pc' = "render") =>
       LET bombs == SlicedAt(fruit_manager'.fruits, current_time, TRUE)
                    - SlicedAt(fruit_manager.fruits, current_time, TRUE)
           others == SlicedAt(fruit_manager'.fruits, current_time, FALSE)
                     - SlicedAt(fruit_manager.fruits, current_time, FALSE)
       IN /\ score_manager'.missed_fruits
               = score_manager.missed_fruits + bombs
          /\ others = 0 => score_manager'.score = score_manager.score
          /\ (bombs > 0 /\ others = 0) => score_manager'.combo = 0]_vars

\* C10 witness: a bomb sliced in this tick, after a fruit had scored
C10_Witness ==
  /\ pc = "render"
  /\ SlicedAt(fruit_manager.fruits, current_time, TRUE) = 1
  /\ SlicedAt(fruit_manager.fruits, current_time, FALSE) = 0
  /\ score_manager.score > 0
  /\ score_manager.combo = 0
  /\ score_manager.missed_fruits = 1

\* the step is update() of a frame whose events are handled
PlayingTick == game_state = "PLAYING" /\ pc = "events" /\ pc' = "render"

\* in this tick an unsliced fruit leaves the screen without being sliced
FallsOff ==
  \E i \in 1..Len(fruit_manager.fruits) :
    LET f == fruit_manager.fruits[i] IN
      /\ ~f.sliced
      /\ is_off_screen(fruit_update(f, dt))
      /\ \A j \in 1..Len(fruit_manager'.fruits) :
           fruit_manager'.fruits[j] # slice(f, current_time)

\* C11: a Playing tick in which an unsliced fruit falls off the screen
\* leaves the combo at 0.
C11_FallResetsCombo ==
  [][(PlayingTick /\ FallsOff) => score_manager'.combo = 0]_vars

\* fruits of the list sliced at the time now whose type is in kinds
SlicedOfType(fruits, now, kinds) ==
  Cardinality({ i \in 1..Len(fruits) :
                  /\ fruits[i].sliced
                  /\ fruits[i].sliced_time = now
                  /\ fruits[i].type \in kinds })

\* C12: a tick that slices exactly one target, not a bomb, with no combo
\* running (so no combo bonus) awards 20 points for a watermelon and 10
\* points for any other fruit.
C12_BaseScoreByKind ==
  [][(/\ PlayingTick
      /\ score_manager.combo = 0
      /\ SlicedOfType(fruit_manager.fruits, current_time,
                      FRUIT_TYPES \cup {"bomb"}) = 0
      /\ SlicedOfType(fruit_manager'.fruits, current_time,
                      FRUIT_TYPES \cup {"bomb"}) = 1
      /\ SlicedOfType(fruit_manager'.fruits, current_time, {"bomb"}) = 0)
     => score_manager'.score = score_manager.score
          + (IF SlicedOfType(fruit_manager'.fruits, current_time,
                             {"watermelon"}) = 1
             THEN 20 ELSE 10)]_vars

(* ------------------------- C13: detect_collision ------------------------ *)

\* the segment from a to b has a point within r of c: an end of it lies in the
\* disc, or the foot of the perpendicular from c lies between its ends and no
\* further than r from c.  Lengths are taken in the unit u that divides all
\* of them
Intersects(a, b, c, r) ==
  LET u == GCD(GCD(GCD(Abs(b[1] - a[1]), Abs(b[2] - a[2])),
                   GCD(Abs(c[1] - a[1]), Abs(c[2] - a[2]))), r)
      vx == (b[1] - a[1]) \div u
      vy == (b[2] - a[2]) \div u
      wx == (c[1] - a[1]) \div u
      wy == (c[2] - a[2]) \div u
      rr == (r \div u) * (r \div u)
      dot == wx * vx + wy * vy
      cross == wx * vy - wy * vx
      vv == vx * vx + vy * vy
  IN \/ wx * wx + wy * wy <= rr
     \/ (wx - vx) * (wx - vx) + (wy - vy) * (wy - vy) <= rr
     \/ /\ vv > 0
        /\ 0 <= dot
        /\ dot <= vv
        /\ cross * cross <= rr * vv

SomeSegmentIntersects(points, fruit) ==
  \E i \in 1..(Len(points) - 1) :
    Intersects(points[i], points[i + 1], <<fruit.x, fruit.y>>, FRUIT_RADIUS)

\* C13: detect_collision(trajectory, fruit) is true if and only if the fruit
\* is not sliced, the trajectory has at least 2 points and some segment
\* between consecutive points intersects the fruit's circle
C13_DetectCollision ==
  last_call = "detect_collision" =>
    LET fruit == fruit_manager.fruits[collision.fruit]
    IN collision.result <=>
         (/\ ~fruit.sliced
          /\ Len(trajectory) >= 2
          /\ SomeSegmentIntersects(trajectory, fruit))

\* a trajectory of three points whose first segment misses the fruit and whose
\* second segment passes through it was found to collide
C13_Witness ==
  /\ last_call = "detect_collision"
  /\ collision.result
  /\ Len(trajectory) = 3
  /\ LET fruit == fruit_manager.fruits[collision.fruit]
     IN /\ ~Intersects(trajectory[1], trajectory[2], <<fruit.x, fruit.y>>,
                       FRUIT_RADIUS)
        /\ Intersects(trajectory[2], trajectory[3], <<fruit.x, fruit.y>>,
                      FRUIT_RADIUS)
        /\ (trajectory[2][1] - fruit.x) * (trajectory[2][1] - fruit.x)
             + (trajectory[2][2] - fruit.y) * (trajectory[2][2] - fruit.y)
             > FRUIT_RADIUS * FRUIT_RADIUS
        /\ (trajectory[3][1] - fruit.x) * (trajectory[3][1] - fruit.x)
             + (trajectory[3][2] - fruit.y) * (trajectory[3][2] - fruit.y)
             > FRUIT_RADIUS * FRUIT_RADIUS

(* -------------------- C14: detect_multiple_collisions ------------------- *)

\* the single-channel test of C13, stated on the points
SingleTest(points, fruit) ==
  /\ ~fruit.sliced
  /\ Len(points) >= 2
  /\ SomeSegmentIntersects(points, fruit)

\* the rule of the fruit's kind
KindRule(fruit) ==
  IF fruit.type = "watermelon"
  THEN /\ Len(trajectory) >= 2
       /\ Len(middle_finger_trajectory) >= 2
       /\ SingleTest(trajectory, fruit)
       /\ SingleTest(middle_finger_trajectory, fruit)
  ELSE SingleTest(trajectory, fruit)

InResult(fruit) ==
  \E j \in 1..Len(collided_fruits) : collided_fruits[j] = fruit

\* C14: detect_multiple_collisions returns exactly the fruits that satisfy the
\* rule of their kind: for a watermelon both trajectories have at least 2
\* points and each passes the single-channel test, for any other kind (bombs
\* included) the index trajectory alone passes it; whether a fruit is returned
\* depends on nothing but the fruit and the two trajectories, so neither on
\* its place in the list nor on the other fruits
C14_DetectMultiple ==
  last_call = "detect_multiple_collisions" =>
    /\ \A i \in 1..Len(fruit_manager.fruits) :
         InResult(fruit_manager.fruits[i]) <=> KindRule(fruit_manager.fruits[i])
    /\ \A j \in 1..Len(collided_fruits) :
         \E i \in 1..Len(fruit_manager.fruits) :
           collided_fruits[j] = fruit_manager.fruits[i]
    /\ Len(collided_fruits)
         = Cardinality({ i \in 1..Len(fruit_manager.fruits) :
                           KindRule(fruit_manager.fruits[i]) })

\* the index trajectory crosses a watermelon and a bomb listed before it, the
\* middle trajectory crosses neither: the bomb alone is returned
C14_Witness ==
  /\ last_call = "detect_multiple_collisions"
  /\ Len(fruit_manager.fruits) = 2
  /\ fruit_manager.fruits[1].type = "bomb"
  /\ fruit_manager.fruits[2].type = "watermelon"
  /\ SingleTest(trajectory, fruit_manager.fruits[1])
  /\ SingleTest(trajectory, fruit_manager.fruits[2])
  /\ Len(middle_finger_trajectory) >= 2
  /\ ~SingleTest(middle_finger_trajectory, fruit_manager.fruits[2])
  /\ collided_fruits = <<fruit_manager.fruits[1]>>

(* ---------------------- C15: sliced at most once ------------------------ *)

SlicedBefore(f) == f.sliced /\ f.sliced_time # current_time

NewlySliced(b) ==
  Cardinality({ j \in 1..Len(fruit_manager'.fruits) :
                  /\ fruit_manager'.fruits[j].sliced
                  /\ fruit_manager'.fruits[j].sliced_time = current_time
                  /\ (fruit_manager'.fruits[j].type = "bomb") = b })

\* C15: in every Playing tick a fruit that was sliced before keeps its flag
\* and its slice time for as long as it is listed, a fruit sliced in the tick
\* was unsliced before it, and the score manager is called once per fruit
\* sliced in the tick (missed_fruits grows by the bombs, the score by the
\* awards of the other fruits) and not at all for the fruits sliced before,
\* whether or not the trajectory crosses them again
C15_SlicedOnce ==
  [][PlayingTick =>
       LET old == fruit_manager.fruits
           new == fruit_manager'.fruits
           bombs == NewlySliced(TRUE)
           others == NewlySliced(FALSE)
       IN /\ \A i \in 1..Len(old) :
               old[i].sliced =>
                 /\ old[i].sliced_time # current_time
                 /\ \A j \in 1..Len(new) :
                      (new[j].x = old[i].x /\ new[j].y = old[i].y
                         /\ new[j].type = old[i].type)
                        => new[j] = old[i]
          /\ \A j \in 1..Len(new) :
               new[j].sliced =>
                 \/ \E i \in 1..Len(old) : old[i].sliced /\ new[j] = old[i]
                 \/ \E i \in 1..Len(old) :
                      ~old[i].sliced /\ new[j] = slice(old[i], current_time)
          /\ score_manager'.missed_fruits
               = score_manager.missed_fruits + bombs
          /\ others = 0 => score_manager'.score = score_manager.score
          /\ (others = 0 /\ bombs = 0)
               => score_manager'.combo = score_manager.combo
          /\ bombs = 0 =>
               /\ score_manager'.combo = score_manager.combo + others
               /\ score_manager'.score - score_manager.score
                    = SumAwards(score_manager.combo + others)
                        - SumAwards(score_manager.combo)]_vars

\* the trajectory of the tick crossed a fruit sliced in an earlier tick: the
\* detector said no, the fruit is still listed with its first slice time
C15_Witness ==
  /\ game_state = "PLAYING"
  /\ pc = "render"
  /\ collision.fruit > 0
  /\ ~collision.result
  /\ \E j \in 1..Len(fruit_manager.fruits) :
       /\ SlicedBefore(fruit_manager.fruits[j])
       /\ fruit_manager.fruits[j].sliced_time < current_time
  /\ score_manager.score > 0

(* --------------------- C16: empty landmark update ----------------------- *)

\* C16: update_landmarks with an empty list, made when a channel holds
\* points, leaves the index trajectory and the middle finger trajectory empty
C16_EmptyUpdateClears ==
  [][(last_call' = "update_landmarks_empty"
        /\ (trajectory # <<>> \/ middle_finger_trajectory # <<>>))
       => (trajectory' = <<>> /\ middle_finger_trajectory' = <<>>)]_vars

(* ------------------- C17: the fruits left after a tick ------------------ *)

\* left of the window by more than the radius, right of it by more than the
\* radius, or below it by more than the radius (40 px); in tenths of a pixel
OutOfWindow(x, y) == x < -400 \/ x > 8000 + 400 \/ y > 6000 + 400

Listed(f, fruits) == \E j \in 1..Len(fruits) : fruits[j] = f

\* C17: after every Playing tick no unsliced fruit of the list is off-screen
\* (left, right or below by more than the radius; above the top edge is not
\* off-screen) and no sliced fruit was sliced more than 1.0 s ago; a fruit
\* sliced at most 1.0 s ago is still listed, and an unsliced fruit leaves the
\* list only by being off-screen
C17_LiveFruits ==
  [][PlayingTick =>
       LET old == fruit_manager.fruits
           new == fruit_manager'.fruits
       IN /\ \A j \in 1..Len(new) :
               IF new[j].sliced
               THEN current_time - new[j].sliced_time <= 10
               ELSE ~OutOfWindow(new[j].x, new[j].y)
          /\ \A i \in 1..Len(old) :
               IF old[i].sliced
               THEN current_time - old[i].sliced_time <= 10
                      => Listed(old[i], new)
               ELSE \/ Listed(slice(old[i], current_time), new)
                    \/ Listed(fruit_update(old[i], dt), new)
                    \/ OutOfWindow(fruit_update(old[i], dt).x,
                                   fruit_update(old[i], dt).y)
          /\ \A x \in {-401, -400, 4000, 8400, 8401},
                y \in {-20000, -401, 3000, 6400, 6401} :
               is_off_screen(FruitAt(x, y, "apple")) <=> OutOfWindow(x, y)]_vars

\* a fruit sliced exactly 1.0 s ago is still listed after the tick
C17_Witness ==
  /\ game_state = "PLAYING"
  /\ pc = "render"
  /\ \E j \in 1..Len(fruit_manager.fruits) :
       /\ fruit_manager.fruits[j].sliced
       /\ current_time - fruit_manager.fruits[j].sliced_time = 10

(* ------------------------ C18: the guide sequence ----------------------- *)

\* the tick spawned a fruit / a fruit of the guide list
Spawned == fruit_manager'.last_spawn_time # fruit_manager.last_spawn_time
SpawnedGuide == fruit_manager'.guide_index = fruit_manager.guide_index + 1

\* C18: the whole guide list is spawned before the first random spawn of the
\* game: a Playing tick that spawns a fruit takes it from the guide list
\* unless the list has been spawned to its end
C18_GuideComplete ==
  [][(PlayingTick /\ Spawned /\ ~SpawnedGuide)
       => fruit_manager.guide_index = Len(guide_fruits)]_vars

(* --------------------- C19: peak height of a launch --------------------- *)

\* C19: a fruit constructed on the bottom edge has a launch velocity whose
\* peak height vy^2 / (2 g) above the spawn point lies between
\* min_required_height and max_required_height (compared as
\* 2 g min <= vy^2 <= 2 g max, velocities in px/s, g = 720 px/s^2)
C19_PeakInBand ==
  (launch.branch # "unset" /\ launch.y = WINDOW_HEIGHT) =>
    /\ 2 * 720 * min_required_height(launch.y)
         <= launch.velocity_y * launch.velocity_y
    /\ launch.velocity_y * launch.velocity_y
         <= 2 * 720 * max_required_height(launch.y)

(* ------------------ C20: horizontal direction of a launch --------------- *)

\* C20: a fruit constructed more than 100 px left of the centre (400 px) gets
\* the range [0.3, 0.7] and a horizontal velocity > 0, one constructed more
\* than 100 px right of it the range [-0.7, -0.3] and a horizontal velocity
\* < 0, for every random draw and every branch of the clamp
C20_HorizontalSign ==
  launch.branch # "unset" =>
    /\ launch.x < 4000 - 1000 =>
         (launch.horizontal_param_range = <<30, 70>> /\ launch.velocity_x > 0)
    /\ launch.x > 4000 + 1000 =>
         (launch.horizontal_param_range = <<-70, -30>> /\ launch.velocity_x < 0)

\* a fruit constructed on the bottom edge right of the centre, whose vertical
\* speed was clamped from above and whose rebuilt horizontal speed was given
\* the negative sign
C20_Witness ==
  /\ launch.branch # "unset"
  /\ launch.y = WINDOW_HEIGHT
  /\ launch.x > 4000 + 1000
  /\ launch.branch = "max"
  /\ launch.horizontal_param_range = <<-70, -30>>
  /\ launch.velocity_x < 0

(* ---------------------- C21: line_circle_collision ---------------------- *)

\* some point a + (k / n) (b - a), k in 0..n, n = |b - a|^2, of the closed
\* segment from a to b is within r of c (distances compared after
\* multiplying by n).  The point of the segment nearest to c is one of these
\* points or lies between two of them only when an end is nearest, so the
\* test is that of the whole segment; for a = b it is the test of the point a
SomePointWithin(a, b, c, r) ==
  LET n == (b[1] - a[1]) * (b[1] - a[1]) + (b[2] - a[2]) * (b[2] - a[2])
  IN IF n = 0
     THEN (a[1] - c[1]) * (a[1] - c[1]) + (a[2] - c[2]) * (a[2] - c[2]) <= r * r
     ELSE \E k \in 0..n :
            LET px == n * (a[1] - c[1]) + k * (b[1] - a[1])
                py == n * (a[2] - c[2]) + k * (b[2] - a[2])
            IN px * px + py * py <= r * r * n * n

\* C21: line_circle_collision is true if and only if some point of the closed
\* segment is at distance <= radius from the centre (a segment that touches
\* the circle is a hit); for line_start = line_end it equals the
\* point-in-circle test of that point
C21_SegmentCircle ==
  segment.called =>
    /\ segment.result <=> SomePointWithin(segment.line_start, segment.line_end,
                                          segment.circle_center, segment.radius)
    /\ segment.line_start = segment.line_end
         => segment.result = segment.point_in_circle

\* a segment with both ends outside the circle that touches it in one point
C21_Witness ==
  /\ segment.called
  /\ segment.result
  /\ segment.line_start = <<0, 0>>
  /\ segment.line_end = <<2, 0>>
  /\ segment.circle_center = <<1, 1>>
  /\ segment.radius = 1
  /\ ~is_point_in_circle(segment.line_start, segment.circle_center, 1)
  /\ ~is_point_in_circle(segment.line_end, segment.circle_center, 1)

(* ------------------ C22: the cap of a trajectory channel ---------------- *)

\* C22: after every update_landmarks call, one that adds several interpolated
\* points included, each channel holds at most max_trajectory_length points
C22_ChannelCap ==
  last_call = "update_landmarks"
    => /\ Len(trajectory) <= max_trajectory_length
       /\ Len(middle_finger_trajectory) <= max_trajectory_length

(* ---------------- C23: the cap of update_trajectory_alpha --------------- *)

\* C23: after every update_trajectory_alpha call each channel holds at most
\* max_points (30) points
C23_RenderCap ==
  last_call = "update_trajectory_alpha"
    => /\ Len(trajectory) <= max_points
       /\ Len(middle_finger_trajectory) <= max_points

(* ------------------- C24: a sliced fruit stands still ------------------- *)

\* C24: an apply_physics or update step of any length applied to a sliced
\* fruit leaves its x, y, velocity_x, velocity_y and rotation as they were
C24_SlicedFrozen ==
  [][\A i \in 1..Len(fruit_manager.fruits) :
       (fruit_manager.fruits[i].sliced
          /\ last_call' \in {"apply_physics", "update"}
          /\ calls' = calls + 1)
         => /\ Len(fruit_manager'.fruits) >= i
            /\ fruit_manager'.fruits[i].x = fruit_manager.fruits[i].x
            /\ fruit_manager'.fruits[i].y = fruit_manager.fruits[i].y
            /\ fruit_manager'.fruits[i].velocity_x
                 = fruit_manager.fruits[i].velocity_x
            /\ fruit_manager'.fruits[i].velocity_y
                 = fruit_manager.fruits[i].velocity_y
            /\ fruit_manager'.fruits[i].rotation
                 = fruit_manager.fruits[i].rotation]_vars

\* a fruit that moved and turned, was sliced, and has been through further
\* steps, the last one an apply_physics step
C24_Witness ==
  /\ last_call = "apply_physics"
  /\ calls >= 4
  /\ fruit_manager.fruits[1].sliced
  /\ fruit_manager.fruits[1].type = "apple"
  /\ fruit_manager.fruits[1].rotation > 0

(* ------------------- C25: no slice without a swipe ---------------------- *)

\* the index trajectory has at least 3 points and its last point is more
\* than 30 px (300 tenths of a pixel) from its first
SwipeFires(points) ==
  /\ Len(points) >= 3
  /\ LET dx == points[Len(points)][1] - points[1][1]
         dy == points[Len(points)][2] - points[1][2]
     IN dx * dx + dy * dy > 300 * 300

\* C25: a Playing tick whose index trajectory has fewer than 3 points, or a
\* displacement of at most 30 px, slices no fruit and leaves score, combo,
\* max_combo and missed_fruits as they were: a fruit is sliced only in a tick
\* in which the swipe classifier fires
C25_SwipeGate ==
  [][(PlayingTick /\ ~SwipeFires(trajectory'))
       => /\ NewlySliced(TRUE) + NewlySliced(FALSE) = 0
          /\ score_manager'.score = score_manager.score
          /\ score_manager'.combo = score_manager.combo
          /\ score_manager'.max_combo = score_manager.max_combo
          /\ score_manager'.missed_fruits = score_manager.missed_fruits]_vars

\* a fruit was sliced in this tick, by a swipe of 3 points over 31 px
C25_Witness ==
  /\ game_state = "PLAYING"
  /\ pc = "render"
  /\ SwipeFires(trajectory)
  /\ Len(trajectory) = 3
  /\ trajectory[3][1] - trajectory[1][1] = 310
  /\ \E j \in 1..Len(fruit_manager.fruits) :
       /\ fruit_manager.fruits[j].sliced
       /\ fruit_manager.fruits[j].sliced_time = current_time

(* -------------------- C26: the order of the guide list ------------------ *)

\* the fruit spawned in the tick: the last of the list
LastSpawned == fruit_manager'.fruits[Len(fruit_manager'.fruits)]

\* C26: in a Playing tick guide_index stays or grows by one; when it grows
\* from k - 1 to k the tick spawned a fruit of the k-th kind of guide_fruits;
\* and a tick that spawns while the guide phase is active and the list is not
\* exhausted is such a guide spawn, so no kind is drawn at random then
C26_GuideOrder ==
  [][PlayingTick =>
       LET k == fruit_manager.guide_index + 1 IN
         /\ fruit_manager'.guide_index \in {k - 1, k}
         /\ SpawnedGuide
              => /\ Spawned
                 /\ k <= Len(guide_fruits)
                 /\ fruit_manager'.fruits # <<>>
                 /\ LastSpawned.type = guide_fruits[k]
         /\ (Spawned /\ fruit_manager'.guide_phase /\ k <= Len(guide_fruits))
              => SpawnedGuide]_vars

\* the third guide spawn has just put a strawberry on the list
C26_Witness ==
  /\ game_state = "PLAYING"
  /\ pc = "render"
  /\ fruit_manager.guide_phase
  /\ fruit_manager.guide_index = 3
  /\ fruit_manager.last_spawn_time = current_time
  /\ fruit_manager.fruits # <<>>
  /\ fruit_manager.fruits[Len(fruit_manager.fruits)].type = "strawberry"

(* ------------------ C27: the end of the initialization ------------------ *)

\* C27: however _async_init ends (all stages returned, a timeout found after
\* a stage, an exception raised in a stage or by play_music) it has ended in
\* its own handlers with initializing false, init_complete true and
\* init_progress 100, which then stay; and no step lowers init_progress
C27_InitEnds ==
  /\ [](init_pc = "done"
          => (~initializing /\ init_complete /\ init_progress = 100))
  /\ [][init_progress' >= init_progress]_vars
  /\ [][(init_pc = "except" /\ init_pc' # init_pc) => init_pc' = "done"]_vars

\* the thread has ended through a handler before a camera was constructed
C27_Witness ==
  /\ init_pc = "done"
  /\ camera = "None"
  /\ ~initializing
  /\ init_complete
  /\ init_progress = 100

(* ----------------------- C28: the lives shown --------------------------- *)

\* the lives render() and draw_ui compute from the missed count
lives(sm) == INITIAL_LIVES - sm.missed_fruits

\* C28: the remaining lives INITIAL_LIVES - missed_fruits are never negative
C28_LivesNotNegative == lives(score_manager) >= 0

(* ------------------ C29: the counts after the game is over -------------- *)

\* C29: missed_fruits never exceeds MAX_MISSED_FRUITS, also when one swipe
\* hits several targets in a tick, and a step taken with game_over set
\* changes neither score nor missed_fruits unless it resets the score manager
C29_CountsStop ==
  /\ [](score_manager.missed_fruits <= MAX_MISSED_FRUITS)
  /\ [][(score_manager.game_over /\ score_manager' # reset(score_manager))
          => /\ score_manager'.score = score_manager.score
             /\ score_manager'.missed_fruits
                  = score_manager.missed_fruits]_vars

(* -------------------- C30: every fruit is removed ----------------------- *)

\* the ticks of a tenth of a second a listed fruit can still be listed for:
\* a sliced fruit until more than 1.0 s has passed since its slice, an
\* unsliced one until gravity has taken its velocity_y to the launch speed,
\* which it does not reach inside the window, and then as a sliced one
TicksLeft(f, now) ==
  IF f.sliced THEN SLICED_LINGER - (now - f.sliced_time)
  ELSE SLICED_LINGER + 1
         + (FRUIT_VELOCITY + EXTRA_VELOCITY - f.velocity_y) \div GRAVITY

\* g is the fruit f after a tick at the time now: moved, or sliced and left
\* where it was
AfterTick(f, g, now) ==
  \/ g = fruit_update(f, dt)
  \/ ~f.sliced /\ g = slice(f, now)

\* g was spawned in the tick, and has made its first step
FreshlySpawned(g) ==
  /\ Spawned
  /\ \E x \in SpawnXs, kind \in FRUIT_TYPES \cup {"bomb"} :
       g = fruit_update(Fruit(x, WINDOW_HEIGHT, kind), dt)

\* C30: while Playing ticks run no fruit stays listed forever: every fruit
\* listed after a tick has a number of ticks left that is not negative, and
\* is a fruit spawned in the tick or a fruit listed before it with fewer
\* ticks left than it had, so that it is removed within that many ticks: the
\* unsliced one when it has left the window, the sliced one when more than
\* 1.0 s has passed since its slice
C30_FruitsLeave ==
  [][PlayingTick =>
       \A j \in 1..Len(fruit_manager'.fruits) :
         LET g == fruit_manager'.fruits[j] IN
           /\ TicksLeft(g, current_time) >= 0
           /\ \/ FreshlySpawned(g)
              \/ \E i \in 1..Len(fruit_manager.fruits) :
                   /\ AfterTick(fruit_manager.fruits[i], g, current_time)
                   /\ TicksLeft(g, current_time)
                        < TicksLeft(fruit_manager.fruits[i],
                                    current_time - dt)]_vars

\* the first fruit of the game was sliced and has been removed, and the
\* second flew out of the window unsliced: no fruit is listed
C30_Witness ==
  /\ game_state = "PLAYING"
  /\ pc = "render"
  /\ fruit_manager.fruits = <<>>
  /\ fruit_manager.guide_index = 2
  /\ score_manager.score = BASE_SCORE_PER_FRUIT
  /\ score_manager.missed_fruits = 0

====
